---- MODULE Spec2Model ----
(***************************************************************************)
(* A model of ibclientpy: the request-id counter of Client, the bracket    *)
(* orders placed around a parent's fill, the open-order / cancel tracking  *)
(* of ClientAdapter, and the tick subscriptions.                           *)
(*                                                                         *)
(* Each component has its own specification over the shared variables:     *)
(*   SpecIds      Client.__get_req_id__ / on_next_id / disconnect, one     *)
(*                handler per step                                         *)
(*   SpecThreads  the same counter, one read or write of next_id per step, *)
(*                for the threads that share it                            *)
(*   SpecBrackets Client.place_order and Client.on_order with              *)
(*                __update_brackets__                                      *)
(*   SpecOrders   ClientAdapter's order events over OrderHandler           *)
(*   SpecTicks    Client.req_tick_updates / cancel_tick_updates and        *)
(*                ClientAdapter.tick_price                                 *)
(*   SpecStreams  tick streams that are cancelled while ticks arrive       *)
(*   SpecPlan     historical_data.create_bar_data                          *)
(*   SpecHistory  HistoricalDownloader's queue and thread, Client.on_history*)
(*   SpecFutures  the futures ClientAdapter resolves from inbound events   *)
(*   SpecErrors ClientAdapter.error and Client.on_error                    *)
(*   SpecDisconnect Client.disconnect with requests and streams open       *)
(*   SpecPlace Client.place_order among subscriptions and fills            *)
(*   SpecExecutions ClientAdapter.exec_details over OrderHandler           *)
(*   SpecBracketOrders the child orders made for one filled parent         *)
(*   SpecConnect Client.connect and what may follow it                     *)
(*   SpecBlocks ClientAdapter.req_historical_data / historical_data        *)
(*   SpecOffline OfflineClient.place_order and on_tick                     *)
(*   SpecCheck offline_client.check_order on every order and tick          *)
(*   SpecCounter outstanding_count, one read or write per step             *)
(*   SpecKeys the callback registry under get_key's keys                   *)
(***************************************************************************)
EXTENDS Integers, Sequences, FiniteSets, TLC

VARIABLES
    next_id,        \* Client.next_id
    returned,       \* ids handed out by __get_req_id__ in this session, in order
    session,        \* number of disconnects so far
    next_id_lock,   \* Client.next_id_lock: its holder, or "free"
    pc,             \* position of each thread
    result,         \* __get_req_id__'s local 'result', per allocating thread
    loaded,         \* the value of next_id a thread has read and not yet written back
    calls,          \* calls each thread has completed
    event_id,       \* the req_id argument of the running on_next_id
    id_contracts,   \* Client.id_contracts: request id -> contract
    bracket_parms,  \* Client.bracket_parms: parent id -> <<profit offset, loss offset>>
    oca_relations,  \* Client.oca_relations: parent id -> <<profit id, loss id>>
    sent,           \* the place_order calls the transport has received, in order
    ev,             \* the inbound event handled last
    n_events,       \* inbound events handled so far
    fill_count,     \* per order id, the fill reports (nonzero price) handled so far
    oh_orders,              \* OrderHandler.orders: order id -> the order's fields
    oh_bracket_parms,       \* OrderHandler.bracket_parms
    open_order_end_called,  \* ClientAdapter.open_order_end_called
    open_order_ids,         \* ClientAdapter.open_order_ids: id -> status seen
    executions_fut,         \* ClientAdapter.executions_fut
    orders_fut,             \* ClientAdapter.orders_fut
    order_cancel_fut,       \* ClientAdapter.order_cancel_fut
    cancel_req_id,          \* the id the suspended cancel_order was called with
    n_queries,              \* open-order queries started so far
    callbacks,        \* Client.callbacks: key -> list of functions
    callback_ids,     \* Client.callback_ids: key -> request id
    market_data_ids,  \* ClientAdapter.market_data_ids: 'symbol.currency' -> request id
    tick_queue,       \* ClientAdapter.tick_queue: request id -> queued ticks
    tick,             \* ClientAdapter.tick: local symbol -> the merged tick
    mkt_subs,         \* the market-data requests open at the transport
    delivered,        \* request id -> what the stream's consumer has read so far
    last_notified,    \* the callbacks the last on_tick has called, and for which key
    tick_error,       \* TRUE once a tick handler has raised
    plan_in,          \* the arguments of the historical request being planned
    blocks,           \* create_bar_data's result: <<[bar_time, bar_count], ...>>
    planned,          \* TRUE once create_bar_data has returned
    connected,          \* ClientAdapter.is_connected
    downloader,         \* Client.downloader: "none" or "set"
    dispatcher,         \* where the downloader's thread is in __dispatcher__
    pending_queue,      \* HistoricalDownloader.pending_queue
    outstanding_count,  \* HistoricalDownloader.outstanding_count
    to_put,             \* the requests request_history has still to put on the queue
    cur_parms,          \* the dispatcher's local 'parms'
    slept,              \* seconds the dispatcher has slept for parms
    since_issue,        \* seconds since the last retrieval call, up to WAIT_SECONDS
    n_put,              \* requests put on the queue so far
    n_issued,           \* retrieval calls made so far
    in_flight,          \* the requests whose data the transport is still sending
    n_plans,            \* calls of req_history so far
    queued_at_stop,     \* the requests on the queue when stop() was called
    last_report,        \* the arguments of the callbacks' last call by on_history
    history_error,      \* TRUE once on_history has raised
    next_valid_id_fut,  \* ClientAdapter.next_valid_id_fut
    account_name_fut,   \* ClientAdapter.account_name_fut
    contract_futs,      \* ClientAdapter.contract_futs: 'symbol.currency' -> future
    n_requests,         \* req_ids, req_managed_accts and req_contract_details calls so far
    last_id_event,      \* the req_id of the last next_valid_id event handled
    contract_handles,   \* the Future each req_contract_details call returned, in call order
    diagnostics,        \* the errors reported so far: the calls of the 'errors' callbacks
    oh_executions,      \* OrderHandler.executions: perm id -> executions, one per exec id
    order_executions,   \* order.executions of the orders update_order has stored
    bracket_in,         \* the filled parent and the offsets its brackets are made for
    bracket_orders,     \* the child orders made for it, the profit order first
    bracket_done,       \* TRUE once the child orders have been made
    connect_pc,         \* position of the caller in Client.connect
    history_pending,    \* ClientAdapter.history_pending: the bars collected
    history_queue,      \* ClientAdapter.history_queue: the blocks put, in order
    hist_streamed,      \* request id -> the bars the transport has streamed for it
    hist_finished,      \* the request ids whose 'finished' was handled, in order
    off_orders,         \* OfflineClient.orders: order id -> the working order
    off_reports,        \* the orders OfflineClient passed to on_order, in order
    n_ticks,            \* offline ticks handled so far
    check_in,           \* the order and the tick check_order is called with
    check_out,          \* what the call returned, once it has
    oc_loaded,          \* per thread, the outstanding_count it has read and not yet written back
    oc_block,           \* the request whose block end the event thread is handling
    key_regs,           \* what callers have registered a callback for and not cancelled
    key_calls           \* the last event: what it was for and the callbacks it called

idVars == <<next_id, returned, session>>
thrVars == <<next_id_lock, pc, result, loaded, calls, event_id>>
brVars == <<id_contracts, bracket_parms, oca_relations, sent, ev, n_events, fill_count>>
ordVars == <<oh_orders, oh_bracket_parms, open_order_end_called, open_order_ids,
             executions_fut, orders_fut, order_cancel_fut, cancel_req_id, n_queries>>
tickVars == <<callbacks, callback_ids, market_data_ids, tick_queue, tick, mkt_subs>>
streamVars == <<delivered, last_notified, tick_error>>
planVars == <<plan_in, blocks, planned>>
histVars == <<connected, downloader, dispatcher, pending_queue, outstanding_count,
              to_put, cur_parms, slept, since_issue, n_put, n_issued, in_flight,
              n_plans, queued_at_stop, last_report, history_error>>
futVars == <<next_valid_id_fut, account_name_fut, contract_futs, n_requests,
             last_id_event, contract_handles>>
errVars == <<diagnostics>>
execVars == <<oh_executions, order_executions>>
ocaVars == <<bracket_in, bracket_orders, bracket_done>>
restVars == <<connect_pc, history_pending, history_queue, hist_streamed, hist_finished,
              off_orders, off_reports, n_ticks, check_in, check_out,
                   oc_loaded, oc_block, key_regs, key_calls>>
extVars == <<streamVars, planVars, histVars, futVars, errVars, execVars, ocaVars,
             restVars>>
appVars == <<brVars, ordVars, tickVars, extVars>>
vars == <<idVars, thrVars, appVars>>

\* ---------------------------------------------------------------- bounds
MaxAllocs == 3       \* allocations per session (SpecIds)
MaxThreadCalls == 2  \* calls each thread makes (SpecThreads)
MaxServerId == 3     \* largest id a next-valid-id event carries
MaxSessions == 2     \* disconnects modelled
MaxParents == 1      \* orders the caller places
MaxEvents == 3       \* inbound order events delivered
MaxQueries == 1      \* open-order queries started
MaxSubs == 2         \* calls of req_tick_updates
MaxStreams == 1      \* subscriptions made where streams are cancelled (SpecStreams)
MaxStreamEvents == 2 \* tick events delivered where streams are cancelled
MaxDay == 5          \* the last calendar day a historical range can name
MaxPlans == 2        \* calls of req_history
MaxRetrievals == 2   \* calls of ClientAdapter.req_historical_data
MaxBars == 2         \* bars the transport streams for one retrieval
MaxTicks == 3        \* ticks the offline client handles

\* ------------------------------------------------------- the id counter
\* Client.__init__ and Client.disconnect: next_id = -1
NoId == -1

Max(a, b) == IF a > b THEN a ELSE b

\* on_next_id with the max() dropped: the counter is simply overwritten.
OnNextIdValue_assign(cur, req_id) == req_id

\* Client.on_next_id: self.next_id = max(self.next_id, req_id)
OnNextIdValue(cur, req_id) == Max(cur, req_id)

ServerIds == 0..MaxServerId

IdleThreads ==
    /\ next_id_lock = "free"
    /\ pc = [t \in {"caller", "dispatcher", "events"} |-> "idle"]
    /\ result = [t \in {"caller", "dispatcher"} |-> NoId]
    /\ loaded = [t \in {"caller", "dispatcher", "events"} |-> NoId]
    /\ calls = [t \in {"caller", "dispatcher", "events"} |-> 0]
    /\ event_id = NoId

\* The function f with key k set to v (a dict assignment) and with k removed.
Put(f, k, v) == [x \in DOMAIN f \cup {k} |-> IF x = k THEN v ELSE f[x]]
Drop(f, k) == [x \in DOMAIN f \ {k} |-> f[x]]
EmptyMap == <<>>

\* An asyncio.Future attribute: None, a Future not done, or one with a result.
NoFuture == [state |-> "none", result |-> NoId]
Pending == [state |-> "pending", result |-> NoId]
Done(value) == [state |-> "done", result |-> value]

\* The test without its 'not done' half.
is_future_valid_notNone(future) == future.state # "none"

\* is_future_valid, and the "fut is not None and not fut.done()" tests
is_future_valid(future) == future.state = "pending"

NoEvent == [type |-> "none", order_id |-> NoId, status |-> "", avg_fill_price |-> 0]

\* No order has been placed and no event delivered.
NoOrders ==
    /\ id_contracts = EmptyMap
    /\ bracket_parms = EmptyMap
    /\ oca_relations = EmptyMap
    /\ sent = <<>>
    /\ ev = NoEvent
    /\ n_events = 0
    /\ fill_count = EmptyMap
    /\ oh_orders = EmptyMap
    /\ oh_bracket_parms = EmptyMap
    /\ open_order_end_called = FALSE
    /\ open_order_ids = EmptyMap
    /\ executions_fut = NoFuture
    /\ orders_fut = NoFuture
    /\ order_cancel_fut = NoFuture
    /\ cancel_req_id = NoId
    /\ n_queries = 0
    /\ callbacks = EmptyMap
    /\ callback_ids = EmptyMap
    /\ market_data_ids = EmptyMap
    /\ tick_queue = EmptyMap
    /\ tick = EmptyMap
    /\ mkt_subs = {}
    /\ delivered = EmptyMap
    /\ last_notified = [key |-> "", functions |-> <<>>]
    /\ tick_error = FALSE

\* No historical request has been planned.
NoPlan ==
    /\ plan_in = [start_date |-> 0, end_date |-> 0,
                  min_time |-> [hour |-> 0, minute |-> 0],
                  max_time |-> [hour |-> 0, minute |-> 0],
                  timezone |-> "UTC", week |-> "plain"]
    /\ blocks = <<>>
    /\ planned = FALSE

NoContract == [symbol |-> "", currency |-> "", local_symbol |-> ""]

\* The 'stop' that HistoricalDownloader.stop puts on the queue; also the
\* dispatcher's parms while it holds no request.
StopItem == [kind |-> "stop", plan |-> 0, seq |-> 0, contract |-> NoContract,
             delay |-> 0, end_date_time |-> 0, duration |-> 0]

NoReport == [key |-> "", block_done |-> FALSE, request_done |-> FALSE]

\* No history has been requested: the client has no downloader yet.
NoDownloader ==
    /\ downloader = "none"
    /\ dispatcher = "unstarted"
    /\ pending_queue = <<>>
    /\ outstanding_count = 0
    /\ to_put = <<>>
    /\ cur_parms = StopItem
    /\ slept = 0
    /\ since_issue = 0
    /\ n_put = 0
    /\ n_issued = 0
    /\ in_flight = {}
    /\ n_plans = 0
    /\ queued_at_stop = {}
    /\ last_report = NoReport
    /\ history_error = FALSE

\* The client is connected and no history has been requested.
NoHistory ==
    /\ connected = TRUE
    /\ NoDownloader

\* Nothing has been asked of the client yet.
\* ClientAdapter.__init__: the futures of the id, account-name and contract
\* requests.
NoFutures ==
    /\ next_valid_id_fut = NoFuture
    /\ account_name_fut = Pending
    /\ contract_futs = EmptyMap
    /\ n_requests = 0
    /\ last_id_event = NoId
    /\ contract_handles = <<>>
    /\ diagnostics = <<>>
    /\ oh_executions = EmptyMap
    /\ order_executions = EmptyMap

NoParent == [action |-> "", total_quantity |-> 0, perm_id |-> 0, avg_fill_price |-> 0]

\* No bracket is being made.
NoBrackets ==
    /\ bracket_in = [parent |-> NoParent, profit_offset |-> 0, loss_offset |-> 0]
    /\ bracket_orders = <<>>
    /\ bracket_done = FALSE

\* get_key's account_name argument, as the characters of the name; None here.
NoAccount == [is_none |-> TRUE, chars |-> <<>>]

\* No callback has been registered through get_key's keys, no event seen.
NoRegistrations ==
    /\ key_regs = {}
    /\ key_calls = [for |-> [method_name |-> "", contract |-> NoContract,
                             account_name |-> NoAccount],
                    called |-> <<>>]

\* No thread is in the middle of "self.outstanding_count += 1" or "-= 1".
NoCounterUpdate ==
    /\ oc_loaded = [caller |-> <<>>, events |-> <<>>]
    /\ oc_block = StopItem

\* check_order has not been called.
NoCheck ==
    /\ check_in = <<>>
    /\ check_out = <<>>

\* Client.__init__: connect has not been called.
NoRest ==
    /\ connect_pc = "idle"
    /\ history_pending = <<>>
    /\ history_queue = <<>>
    /\ hist_streamed = EmptyMap
    /\ hist_finished = <<>>
    /\ off_orders = EmptyMap
    /\ off_reports = <<>>
    /\ n_ticks = 0
    /\ NoCheck
    /\ NoCounterUpdate
    /\ NoRegistrations

Quiet == NoOrders /\ NoPlan /\ NoHistory /\ NoFutures /\ NoBrackets /\ NoRest

InitIds ==
    /\ next_id = NoId
    /\ returned = <<>>
    /\ session = 0
    /\ IdleThreads
    /\ Quiet

\* Client.__get_req_id__, as one step.
get_req_id ==
    /\ Len(returned) < MaxAllocs
    /\ returned' = Append(returned, next_id)
    /\ next_id' = next_id + 1
    /\ UNCHANGED <<session, thrVars, appVars>>

\* Client.on_next_id, as one step.
on_next_id ==
    \E req_id \in ServerIds :
        /\ next_id' = OnNextIdValue(next_id, req_id)
        /\ UNCHANGED <<returned, session, thrVars, appVars>>

\* Client.disconnect: the transport is disconnected, a downloader is told to
\* stop ('stop' goes to the end of its queue) and forgotten, the counter is
\* reset and a new session begins.
disconnect ==
    /\ session < MaxSessions
    /\ to_put = <<>>
    /\ connected' = FALSE
    /\ IF downloader # "none"
       THEN /\ pending_queue' = Append(pending_queue, StopItem)
            /\ queued_at_stop' = {pending_queue[i].seq : i \in DOMAIN pending_queue}
            /\ downloader' = "none"
       ELSE UNCHANGED <<pending_queue, queued_at_stop, downloader>>
    /\ next_id' = NoId
    /\ returned' = <<>>
    /\ session' = session + 1
    /\ UNCHANGED <<thrVars, brVars, ordVars, tickVars, streamVars, planVars, futVars, errVars, execVars, ocaVars, restVars,
                   dispatcher, outstanding_count, to_put, cur_parms, slept, since_issue,
                   n_put, n_issued, in_flight, n_plans, last_report,
                   history_error>>

NextIds == get_req_id \/ on_next_id \/ disconnect

SpecIds == InitIds /\ [][NextIds]_vars

\* C1: within one session every id returned by __get_req_id__ is strictly
\* greater than every id returned before it, whatever next-valid-id events
\* arrive in between; so no id is returned twice.
C1_StrictlyIncreasing ==
    \A i, j \in DOMAIN returned : i < j => returned[i] < returned[j]

\* Three ids were handed out in a session with a next-valid-id event between
\* the allocations (the second id is not the successor of the first), after an
\* earlier session had ended.
C1_Witness ==
    /\ session > 0
    /\ Len(returned) = 3
    /\ returned[2] > returned[1] + 1

\* ------------------------------------------- the id counter, per thread
\* The caller's thread and HistoricalDownloader.__dispatcher__'s thread call
\* __get_req_id__; the event-delivery thread runs on_next_id. A step is one
\* acquire, release, read or write of next_id: "self.next_id += 1" and
\* "self.next_id = max(self.next_id, req_id)" each read the attribute, compute,
\* and store it, and the interpreter may switch threads in between.
Allocators == {"caller", "dispatcher"}

InitThreads ==
    /\ next_id \in ServerIds
    /\ returned = <<>>
    /\ session = 0
    /\ IdleThreads
    /\ Quiet

\* line 106: self.next_id_lock.acquire()
t_acquire(t) ==
    /\ pc[t] = "idle"
    /\ calls[t] < MaxThreadCalls
    /\ next_id_lock = "free"
    /\ next_id_lock' = t
    /\ pc' = [pc EXCEPT ![t] = "locked"]
    /\ UNCHANGED <<idVars, result, loaded, calls, event_id, appVars>>

\* line 107: result = self.next_id
t_result(t) ==
    /\ pc[t] = "locked"
    /\ result' = [result EXCEPT ![t] = next_id]
    /\ pc' = [pc EXCEPT ![t] = "read"]
    /\ UNCHANGED <<idVars, next_id_lock, loaded, calls, event_id, appVars>>

\* line 108, first half: self.next_id is read for the +=
t_load(t) ==
    /\ pc[t] = "read"
    /\ loaded' = [loaded EXCEPT ![t] = next_id]
    /\ pc' = [pc EXCEPT ![t] = "loaded"]
    /\ UNCHANGED <<idVars, next_id_lock, result, calls, event_id, appVars>>

\* line 108, second half: the sum is stored
t_store(t) ==
    /\ pc[t] = "loaded"
    /\ next_id' = loaded[t] + 1
    /\ pc' = [pc EXCEPT ![t] = "stored"]
    /\ UNCHANGED <<returned, session, next_id_lock, result, loaded, calls, event_id, appVars>>

\* lines 109-110: the lock is released and result returned
t_release(t) ==
    /\ pc[t] = "stored"
    /\ next_id_lock' = "free"
    /\ returned' = Append(returned, result[t])
    /\ pc' = [pc EXCEPT ![t] = "idle"]
    /\ calls' = [calls EXCEPT ![t] = @ + 1]
    /\ UNCHANGED <<next_id, session, result, loaded, event_id, appVars>>

\* on_next_id, line 197: self.next_id is read (no lock is taken)
e_load ==
    /\ pc["events"] = "idle"
    /\ calls["events"] < MaxThreadCalls
    /\ \E req_id \in ServerIds : event_id' = req_id
    /\ loaded' = [loaded EXCEPT !["events"] = next_id]
    /\ pc' = [pc EXCEPT !["events"] = "loaded"]
    /\ UNCHANGED <<idVars, next_id_lock, result, calls, appVars>>

\* on_next_id, line 197: the maximum is stored
e_store ==
    /\ pc["events"] = "loaded"
    /\ next_id' = OnNextIdValue(loaded["events"], event_id)
    /\ pc' = [pc EXCEPT !["events"] = "idle"]
    /\ calls' = [calls EXCEPT !["events"] = @ + 1]
    /\ UNCHANGED <<returned, session, next_id_lock, result, loaded, event_id, appVars>>

get_req_id_thread ==
    \E t \in Allocators :
        t_acquire(t) \/ t_result(t) \/ t_load(t) \/ t_store(t) \/ t_release(t)

on_next_id_thread == e_load \/ e_store

NextThreads == get_req_id_thread \/ on_next_id_thread

SpecThreads == InitThreads /\ [][NextThreads]_vars

\* C2: when the caller's thread and the dispatcher's thread allocate while the
\* event-delivery thread runs on_next_id, no two allocations return the same
\* id.
C2_NoDuplicateIds ==
    \A i, j \in DOMAIN returned : i # j => returned[i] # returned[j]

\* The lock does what it is there for: two allocators are never both between
\* acquire and release.
LockExcludesAllocators ==
    \A t, u \in Allocators :
        (t # u /\ pc[t] # "idle") => pc[u] = "idle"

\* ------------------------------------------------------- bracket orders
\* Client.place_order records the offsets of a parent order; Client.on_order
\* runs __update_brackets__, which places the children once the parent is
\* filled.
Offsets == {-3, 0, 5}
FillPrices == {0, 100}
OrderActions == {"buy", "sell"}
OrderStatuses == {"submitted", "filled"}
TheContract == "eurusd"

Abs(x) == IF x < 0 THEN 0 - x ELSE x

\* The order sent under request id 'id' (ids are never reused in 'sent').
SentOrder(id) == sent[CHOOSE i \in DOMAIN sent : sent[i].req_id = id]

\* OfflineClient.place_order: order.perm_id = req_id
PermIdOf(id) == id

NoGroup == ""

\* The children with the offset used as signed: abs() is missing.
BracketChildren_signed(action, avg, profit_offset, loss_offset) ==
    LET child == IF action = "buy" THEN "sell" ELSE "buy"
        direction == IF action = "buy" THEN 1 ELSE 0 - 1
        profit == IF profit_offset # 0
                  THEN << [order_type |-> "lmt", action |-> child,
                           price |-> avg + profit_offset * direction] >>
                  ELSE <<>>
        loss == IF loss_offset # 0
                THEN << [order_type |-> "stp", action |-> child,
                         price |-> avg - loss_offset * direction] >>
                ELSE <<>>
    IN  profit \o loss

\* __update_brackets__, lines 126-152: the child orders for a parent with the
\* given action filled at avg, the profit order first.
BracketChildren(action, avg, profit_offset, loss_offset) ==
    LET child == IF action = "buy" THEN "sell" ELSE "buy"
        direction == IF action = "buy" THEN 1 ELSE 0 - 1
        profit == IF profit_offset # 0
                  THEN << [order_type |-> "lmt", action |-> child,
                           price |-> avg + Abs(profit_offset) * direction] >>
                  ELSE <<>>
        loss == IF loss_offset # 0
                THEN << [order_type |-> "stp", action |-> child,
                         price |-> avg - Abs(loss_offset) * direction] >>
                ELSE <<>>
    IN  profit \o loss

\* The offsets are read and left in place.
TakeOffsets_keep(parms, id) == parms

\* __update_brackets__, line 128: self.bracket_parms.pop(parent.order_id)
TakeOffsets(parms, id) == Drop(parms, id)

\* The early returns without the test of the average fill price.
BracketsDue_anyPrice(id, status, avg) ==
    /\ id \in DOMAIN bracket_parms
    /\ id \in DOMAIN id_contracts
    /\ status = "filled"

\* __update_brackets__, lines 120-125: the early returns.
BracketsDue(id, status, avg) ==
    /\ id \in DOMAIN bracket_parms
    /\ id \in DOMAIN id_contracts
    /\ status = "filled"
    /\ avg # 0

InitBrackets ==
    /\ next_id = 1
    /\ returned = <<>>
    /\ session = 0
    /\ IdleThreads
    /\ Quiet

\* place_order that keeps only the new order's contract: the others'
\* entries are lost.
place_order_forgetsOthers ==
    \E action \in OrderActions, profit_offset \in Offsets, loss_offset \in Offsets :
        /\ Cardinality({i \in DOMAIN sent : sent[i].oca_group = NoGroup}) < MaxParents
        /\ next_id' = next_id + 1
        /\ id_contracts' = Put(EmptyMap, next_id, TheContract)
        /\ bracket_parms' = Put(bracket_parms, next_id, <<profit_offset, loss_offset>>)
        /\ sent' = Append(sent, [req_id |-> next_id, action |-> action,
                                 order_type |-> "mkt", price |-> 0,
                                 oca_group |-> NoGroup])
        /\ UNCHANGED <<returned, session, thrVars, extVars, ordVars, tickVars,
                       oca_relations, ev, n_events, fill_count>>

\* Client.place_order, called by the user.
place_order ==
    \E action \in OrderActions, profit_offset \in Offsets, loss_offset \in Offsets :
        /\ Cardinality({i \in DOMAIN sent : sent[i].oca_group = NoGroup}) < MaxParents
        /\ next_id' = next_id + 1
        /\ id_contracts' = Put(id_contracts, next_id, TheContract)
        /\ bracket_parms' = Put(bracket_parms, next_id, <<profit_offset, loss_offset>>)
        /\ sent' = Append(sent, [req_id |-> next_id, action |-> action,
                                 order_type |-> "mkt", price |-> 0,
                                 oca_group |-> NoGroup])
        /\ UNCHANGED <<returned, session, thrVars, extVars, ordVars, tickVars, oca_relations, ev, n_events,
                       fill_count>>

\* __update_brackets__ that records each child with the parent's offsets.
update_brackets_inherit(id, avg) ==
    LET offsets == bracket_parms[id]
        children == BracketChildren(SentOrder(id).action, avg, offsets[1], offsets[2])
        n == Len(children)
        child_id(i) == next_id + i - 1
        placed == [i \in 1..n |->
                     [req_id |-> child_id(i), action |-> children[i].action,
                      order_type |-> children[i].order_type,
                      price |-> children[i].price,
                      oca_group |-> ToString(PermIdOf(id))]]
        id_of(kind) == IF \E i \in 1..n : children[i].order_type = kind
                       THEN child_id(CHOOSE i \in 1..n : children[i].order_type = kind)
                       ELSE NoId
        taken == TakeOffsets(bracket_parms, id)
    IN  /\ next_id' = next_id + n
        /\ id_contracts' = [x \in DOMAIN id_contracts \cup {child_id(i) : i \in 1..n} |->
                              IF x \in DOMAIN id_contracts THEN id_contracts[x]
                              ELSE id_contracts[id]]
        /\ bracket_parms' = [x \in DOMAIN taken \cup {child_id(i) : i \in 1..n} |->
                               IF x \in {child_id(i) : i \in 1..n} THEN offsets
                               ELSE taken[x]]
        /\ sent' = sent \o placed
        /\ oca_relations' = Put(oca_relations, id, <<id_of("lmt"), id_of("stp")>>)

\* __update_brackets__ for a parent that passed the early returns: the
\* offsets are taken and each child goes through Client.place_order, which
\* allocates its id and records it with offsets (0, 0).
update_brackets(id, avg) ==
    LET offsets == bracket_parms[id]
        children == BracketChildren(SentOrder(id).action, avg, offsets[1], offsets[2])
        n == Len(children)
        child_id(i) == next_id + i - 1
        placed == [i \in 1..n |->
                     [req_id |-> child_id(i), action |-> children[i].action,
                      order_type |-> children[i].order_type,
                      price |-> children[i].price,
                      oca_group |-> ToString(PermIdOf(id))]]
        id_of(kind) == IF \E i \in 1..n : children[i].order_type = kind
                       THEN child_id(CHOOSE i \in 1..n : children[i].order_type = kind)
                       ELSE NoId
        taken == TakeOffsets(bracket_parms, id)
    IN  /\ next_id' = next_id + n
        /\ id_contracts' = [x \in DOMAIN id_contracts \cup {child_id(i) : i \in 1..n} |->
                              IF x \in DOMAIN id_contracts THEN id_contracts[x]
                              ELSE id_contracts[id]]
        /\ bracket_parms' = [x \in DOMAIN taken \cup {child_id(i) : i \in 1..n} |->
                               IF x \in {child_id(i) : i \in 1..n} THEN <<0, 0>>
                               ELSE taken[x]]
        /\ sent' = sent \o placed
        /\ oca_relations' = Put(oca_relations, id, <<id_of("lmt"), id_of("stp")>>)

\* Client.on_order: an order update arrives for an order the transport knows.
on_order ==
    \E id \in {sent[i].req_id : i \in DOMAIN sent},
       status \in OrderStatuses, avg \in FillPrices :
        /\ n_events < MaxEvents
        /\ n_events' = n_events + 1
        /\ ev' = [type |-> "on_order", order_id |-> id, status |-> status,
                  avg_fill_price |-> avg]
        /\ fill_count' = IF status = "filled" /\ avg # 0
                         THEN Put(fill_count, id,
                                  IF id \in DOMAIN fill_count THEN fill_count[id] + 1 ELSE 1)
                         ELSE fill_count
        /\ IF BracketsDue(id, status, avg)
           THEN update_brackets(id, avg)
           ELSE UNCHANGED <<next_id, id_contracts, bracket_parms, sent, oca_relations>>
        /\ UNCHANGED <<returned, session, thrVars, extVars, ordVars, tickVars>>

NextBrackets == place_order \/ on_order

SpecBrackets == InitBrackets /\ [][NextBrackets]_vars

\* The orders sent in the step and, among all orders sent, the children of a parent.
NewlySent == SubSeq(sent', Len(sent) + 1, Len(sent'))
Children(id, kind) ==
    {i \in DOMAIN sent : sent[i].oca_group = ToString(PermIdOf(id))
                            /\ sent[i].order_type = kind}

\* C3: when a parent with recorded offsets (p, l) is reported filled at an
\* average price a > 0, the orders placed in that step are: for p # 0 one limit
\* order at a + |p| (buy parent) or a - |p| (sell parent); for l # 0 one stop
\* order at a - |l| (buy parent) or a + |l| (sell parent); nothing for a zero
\* offset.
C3_BracketPrices ==
    [][\A id \in DOMAIN bracket_parms :
         ( /\ n_events' = n_events + 1
           /\ ev'.type = "on_order" /\ ev'.order_id = id
           /\ ev'.status = "filled" /\ ev'.avg_fill_price > 0 )
         =>
         LET p == bracket_parms[id][1]
             l == bracket_parms[id][2]
             a == ev'.avg_fill_price
             buy == SentOrder(id).action = "buy"
             limits == {i \in DOMAIN NewlySent : NewlySent[i].order_type = "lmt"}
             stops == {i \in DOMAIN NewlySent : NewlySent[i].order_type = "stp"}
         IN  /\ DOMAIN NewlySent = limits \cup stops
             /\ Cardinality(limits) = IF p # 0 THEN 1 ELSE 0
             /\ Cardinality(stops) = IF l # 0 THEN 1 ELSE 0
             /\ \A i \in limits :
                    NewlySent[i].price = IF buy THEN a + Abs(p) ELSE a - Abs(p)
             /\ \A i \in stops :
                    NewlySent[i].price = IF buy THEN a - Abs(l) ELSE a + Abs(l)
      ]_vars

\* A buy parent with offsets 5 and -3 was filled at 100 and has its limit child
\* at 105 and its stop child at 97.
C3_Witness ==
    \E i, j, k \in DOMAIN sent :
        /\ sent[i].action = "buy" /\ sent[i].oca_group = NoGroup
        /\ sent[i].req_id \in DOMAIN oca_relations
        /\ sent[j].oca_group = ToString(PermIdOf(sent[i].req_id))
        /\ sent[j].order_type = "lmt" /\ sent[j].price = 105
        /\ sent[k].oca_group = ToString(PermIdOf(sent[i].req_id))
        /\ sent[k].order_type = "stp" /\ sent[k].price = 97

\* C4: however often an order is reported filled, at most one profit child and
\* at most one loss child are ever placed for it.
C4_ChildrenPlacedOnce ==
    \A id \in DOMAIN id_contracts :
        /\ Cardinality(Children(id, "lmt")) <= 1
        /\ Cardinality(Children(id, "stp")) <= 1

\* An order was reported filled twice and has both of its children.
C4_Witness ==
    \E id \in DOMAIN fill_count :
        /\ fill_count[id] >= 2
        /\ Cardinality(Children(id, "lmt")) = 1
        /\ Cardinality(Children(id, "stp")) = 1

\* ------------------------------------------- open orders and cancelling
\* ClientAdapter's order events, with OrderHandler as the order store. The
\* caller's side (the coroutine Client that creates the futures and awaits
\* them) is not among the sources; get_orders, cancel_order and
\* place_order_handler follow its description.

\* What an order_status event reports: (status, avg_fill_price).
StatusReports ==
    { <<"apipending", 0>>, <<"submitted", 0>>, <<"filled", 0>>,
      <<"filled", 100>>, <<"cancelled", 0>> }

\* The order ids inbound events name: the caller's own order (InitOrders starts
\* the counter at 1) and one the client did not originate.
EventOrderIds == {1, 2}

\* The offset pairs orders are placed with here.
HandlerOffsets == { <<0, 0>>, <<5, 0>>, <<5, -3>> }

\* ibapipy's Order as open_order delivers it: no status yet.
NewOrder == [status |-> "", avg_fill_price |-> 0]

\* OrderHandler.add_order
add_order(id, profit_offset, loss_offset) ==
    /\ oh_orders' = Put(oh_orders, id, NewOrder)
    /\ oh_bracket_parms' = Put(oh_bracket_parms, id, <<profit_offset, loss_offset>>)

\* The executions recorded for a permanent id, in the order their exec ids
\* were first seen (the values of OrderHandler.executions[perm_id]).
RecordedExecutions(perm_id) ==
    IF perm_id \in DOMAIN oh_executions THEN oh_executions[perm_id] ELSE <<>>

\* update_order that starts the order map anew with the reported order.
update_order_dropsOthers(req_id) ==
    /\ oh_orders' = Put(EmptyMap, req_id, NewOrder)
    /\ order_executions' = Put(order_executions, req_id,
                               RecordedExecutions(PermIdOf(req_id)))

\* OrderHandler.update_order: the order is added or replaced, and the
\* executions recorded for its permanent id are copied into order.executions.
\* (The reported order's perm_id is taken to be PermIdOf(req_id).)
update_order(req_id) ==
    /\ oh_orders' = Put(oh_orders, req_id, NewOrder)
    /\ order_executions' = Put(order_executions, req_id,
                               RecordedExecutions(PermIdOf(req_id)))

\* ClientAdapter.req_all_open_orders
req_all_open_orders ==
    /\ open_order_end_called' = FALSE
    /\ open_order_ids' = EmptyMap

\* The orders future is resolved as soon as every status is in.
OrdersComplete_noEndMarker(ids, end_called) == \A id \in DOMAIN ids : ids[id]

\* order_status, lines 246-247: no False among open_order_ids' values and
\* open_order_end was called.
OrdersComplete(ids, end_called) ==
    /\ \A id \in DOMAIN ids : ids[id]
    /\ end_called

InitOrders ==
    /\ next_id = 1
    /\ returned = <<>>
    /\ session = 0
    /\ IdleThreads
    /\ Quiet

\* placeOrder of the coroutine Client: an id is allocated, the order stored
\* with its offsets (OrderHandler.add_order) and the place-order call issued.
place_order_handler ==
    \E action \in OrderActions, offsets \in HandlerOffsets :
        /\ Len(sent) < MaxParents
        /\ next_id' = next_id + 1
        /\ id_contracts' = Put(id_contracts, next_id, TheContract)
        /\ add_order(next_id, offsets[1], offsets[2])
        /\ sent' = Append(sent, [req_id |-> next_id, action |-> action,
                                 order_type |-> "mkt", price |-> 0,
                                 oca_group |-> NoGroup])
        /\ UNCHANGED <<returned, session, thrVars, extVars, tickVars, bracket_parms, oca_relations, ev,
                       n_events, fill_count, open_order_end_called, open_order_ids,
                       executions_fut, orders_fut, order_cancel_fut, cancel_req_id,
                       n_queries>>

\* listOpenOrders of the coroutine Client: both futures are created and the
\* executions and the open orders requested.
get_orders ==
    /\ n_queries < MaxQueries
    /\ ~is_future_valid(orders_fut)
    /\ n_queries' = n_queries + 1
    /\ executions_fut' = Pending
    /\ orders_fut' = Pending
    /\ req_all_open_orders
    /\ UNCHANGED <<idVars, thrVars, extVars, brVars, tickVars, oh_orders, oh_bracket_parms,
                   order_cancel_fut, cancel_req_id>>

\* cancelOrder of the coroutine Client: the future is created and the cancel
\* issued (Client.cancel_order: self.adapter.cancel_order(req_id)).
cancel_order ==
    \E req_id \in DOMAIN oh_orders :
        /\ ~is_future_valid(order_cancel_fut)
        /\ order_cancel_fut' = Pending
        /\ cancel_req_id' = req_id
        /\ UNCHANGED <<idVars, thrVars, extVars, brVars, tickVars, oh_orders, oh_bracket_parms,
                       open_order_end_called, open_order_ids, executions_fut,
                       orders_fut, n_queries>>

\* An inbound event is taken from the channel.
Deliver ==
    /\ n_events < MaxEvents
    /\ n_events' = n_events + 1
    /\ UNCHANGED ev

\* ClientAdapter.open_order
open_order ==
    \E req_id \in EventOrderIds :
        /\ Deliver
        /\ update_order(req_id)
        /\ open_order_ids' = IF req_id \in DOMAIN open_order_ids
                             THEN open_order_ids
                             ELSE Put(open_order_ids, req_id, FALSE)
        /\ UNCHANGED <<idVars, thrVars, streamVars, planVars, histVars, futVars,
                       errVars, ocaVars, restVars, oh_executions, tickVars, id_contracts, bracket_parms,
                       oca_relations, sent, fill_count, oh_bracket_parms,
                       open_order_end_called, executions_fut, orders_fut,
                       order_cancel_fut, cancel_req_id, n_queries>>

\* ClientAdapter.open_order_end
open_order_end ==
    /\ Deliver
    /\ open_order_end_called' = TRUE
    /\ UNCHANGED <<idVars, thrVars, extVars, tickVars, id_contracts, bracket_parms, oca_relations,
                   sent, fill_count, oh_orders, oh_bracket_parms, open_order_ids,
                   executions_fut, orders_fut, order_cancel_fut, cancel_req_id,
                   n_queries>>

\* ClientAdapter.exec_details_end
exec_details_end ==
    /\ Deliver
    /\ executions_fut' = IF is_future_valid(executions_fut)
                         THEN Done(1) ELSE executions_fut
    /\ UNCHANGED <<idVars, thrVars, extVars, tickVars, id_contracts, bracket_parms, oca_relations,
                   sent, fill_count, oh_orders, oh_bracket_parms,
                   open_order_end_called, open_order_ids, orders_fut,
                   order_cancel_fut, cancel_req_id, n_queries>>

\* ClientAdapter.order_status. Line 239 calls the coroutine
\* OrderHandler.update_brackets without "yield from": the call only creates a
\* generator object, which is dropped, so none of update_brackets' body runs
\* (no offsets are taken, no child is placed).
order_status ==
    \E req_id \in EventOrderIds, report \in StatusReports :
        LET status == report[1]
            avg == report[2]
            ids == Put(open_order_ids, req_id, status # "apipending")
        IN  /\ Deliver
            /\ open_order_ids' = ids
            /\ IF req_id \notin DOMAIN oh_orders
               THEN UNCHANGED <<oh_orders, order_cancel_fut, orders_fut>>
               ELSE /\ oh_orders' = Put(oh_orders, req_id,
                                       [status |-> status, avg_fill_price |-> avg])
                    /\ order_cancel_fut' =
                           IF status = "cancelled" /\ is_future_valid(order_cancel_fut)
                           THEN Done(req_id) ELSE order_cancel_fut
                    /\ orders_fut' =
                           IF OrdersComplete(ids, open_order_end_called)
                              /\ is_future_valid(orders_fut)
                           THEN Done(Cardinality(DOMAIN oh_orders))
                           ELSE orders_fut
            /\ UNCHANGED <<idVars, thrVars, extVars, tickVars, id_contracts, bracket_parms,
                           oca_relations, sent, fill_count, oh_bracket_parms,
                           open_order_end_called, executions_fut, cancel_req_id,
                           n_queries>>

NextOrders ==
    \/ place_order_handler
    \/ get_orders
    \/ cancel_order
    \/ open_order
    \/ open_order_end
    \/ exec_details_end
    \/ order_status

SpecOrders == InitOrders /\ [][NextOrders]_vars

\* Every id recorded in open_order_ids has reported a status other than apipending.
AllReported == \A id \in DOMAIN open_order_ids : open_order_ids[id]

\* The step resolves the orders future.
OrdersFutResolves == is_future_valid(orders_fut) /\ orders_fut'.state = "done"

\* C5: when an order-status event moves an order with recorded nonzero
\* offsets (and a recorded contract) to status filled with a nonzero average
\* fill price, handling that event issues the place-order call of each child
\* the offsets ask for.
C5_FillPlacesChildren ==
    [][\A id \in DOMAIN oh_bracket_parms \cap DOMAIN oh_orders \cap DOMAIN id_contracts :
         ( /\ n_events' = n_events + 1
           /\ oh_orders[id].status # "filled"
           /\ oh_orders'[id].status = "filled"
           /\ oh_orders'[id].avg_fill_price # 0 )
         =>
         /\ oh_bracket_parms[id][1] # 0 =>
                \E i \in DOMAIN NewlySent : NewlySent[i].order_type = "lmt"
         /\ oh_bracket_parms[id][2] # 0 =>
                \E i \in DOMAIN NewlySent : NewlySent[i].order_type = "stp"
      ]_vars

C7_ResolvedOnceComplete ==
    ( /\ orders_fut.state # "none"
      /\ AllReported
      /\ open_order_end_called
      /\ executions_fut.state = "done" )
    => orders_fut.state = "done"

\* C8: the cancel future of cancel_order(id) is resolved only by the
\* cancelled report of order id.
C8_CancelResolvedBySameOrder ==
    order_cancel_fut.state = "done" => order_cancel_fut.result = cancel_req_id

\* ---------------------------------------------------- tick subscriptions
\* Client.req_tick_updates / cancel_tick_updates and ClientAdapter's
\* req_mkt_data / cancel_mkt_data / tick_price.
Contracts ==
    { [symbol |-> "eur", currency |-> "usd", local_symbol |-> "EUR.USD"],
      [symbol |-> "gbp", currency |-> "usd", local_symbol |-> "GBP.USD"] }

TickCallbacks == {"on_tick_a", "on_tick_b"}

\* tick_price's tick_type: 1 the bid, 2 the ask, 4 the last price
TickTypes == {1, 2, 4}
TickPrices == {-1, 1, 2}

\* str.lower on one character of an account name
LowerChar(c) ==
    CASE c = "D" -> "d"
      [] c = "U" -> "u"
      [] OTHER -> c

\* account_name.lower(), as text
RECURSIVE lower(_)
lower(chars) ==
    IF chars = <<>> THEN "" ELSE LowerChar(Head(chars)) \o lower(Tail(chars))

\* client.get_key(method_name, contract=None, account_name=None)
get_key_account(method_name, contract, account_name) ==
    LET account_text == IF account_name.is_none THEN ""
                        ELSE lower(account_name.chars)
        contract_text == IF contract = NoContract THEN ""
                         ELSE contract.symbol \o contract.currency
    IN  method_name \o account_text \o contract_text

\* client.get_key(method_name, contract)
get_key(method_name, contract) == get_key_account(method_name, contract, NoAccount)

\* ClientAdapter's key: '{0}.{1}'.format(contract.symbol, contract.currency)
MarketKey(contract) == contract.symbol \o "." \o contract.currency

\* Tick(local_symbol, ds.now()): no bid, no ask and no sizes yet
NewTick == [bid |-> 0, ask |-> 0, bid_size |-> 0, ask_size |-> 0, volume |-> 0]

\* copy_tick: a new Tick with every attribute of the given one
copy_tick(t) == [bid |-> t.bid, ask |-> t.ask, bid_size |-> t.bid_size,
                 ask_size |-> t.ask_size, volume |-> t.volume]

\* Crossed quotes are let through when bid and ask are equal, and a missing
\* bid is not looked at.
ShouldEmit_crossed(t) == t.ask >= t.bid

\* tick_price, line 265: if tick.bid > 0 and tick.ask > tick.bid
ShouldEmit(t) == t.bid > 0 /\ t.ask > t.bid

\* Client.__add_callback__: the list for key with function in it.
AddCallback(key, function) ==
    LET old == IF key \in DOMAIN callbacks THEN callbacks[key] ELSE <<>>
    IN  Put(callbacks, key,
            IF \E i \in DOMAIN old : old[i] = function THEN old
            ELSE Append(old, function))

InitTicks ==
    /\ next_id = 1
    /\ returned = <<>>
    /\ session = 0
    /\ IdleThreads
    /\ Quiet

\* Client.req_tick_updates, with ClientAdapter.req_mkt_data
req_tick_updates ==
    \E contract \in Contracts, callback \in TickCallbacks :
        LET key == get_key("tick", contract)
            req_id == next_id
        IN  /\ next_id < 1 + MaxSubs
            /\ next_id' = next_id + 1
            /\ callbacks' = AddCallback(key, callback)
            /\ callback_ids' = Put(callback_ids, key, req_id)
            /\ id_contracts' = Put(id_contracts, req_id, contract)
            /\ market_data_ids' = Put(market_data_ids, MarketKey(contract), req_id)
            /\ tick_queue' = Put(tick_queue, req_id, <<>>)
            /\ mkt_subs' = mkt_subs \cup {req_id}
            /\ UNCHANGED <<returned, session, thrVars, extVars, ordVars, bracket_parms,
                           oca_relations, sent, ev, n_events, fill_count, tick>>

\* Client.cancel_tick_updates, with ClientAdapter.cancel_mkt_data
cancel_tick_updates ==
    \E contract \in Contracts :
        LET key == get_key("tick", contract)
        IN  /\ key \in DOMAIN callback_ids
            /\ callbacks' = Drop(callbacks, key)
            /\ callback_ids' = Drop(callback_ids, key)
            /\ mkt_subs' = mkt_subs \ {callback_ids[key]}
            /\ UNCHANGED <<idVars, thrVars, extVars, brVars, ordVars, market_data_ids,
                           tick_queue, tick>>

\* The request ids an inbound tick event can carry: every id a market-data
\* request was sent with, cancelled or not (an event can be in flight when the
\* request is cancelled).
TickEventIds == DOMAIN id_contracts

\* self.client.id_contracts[req_id] and self.tick_queue[req_id] raise KeyError
\* for an id they do not hold.
TickLookupFails(req_id) == req_id \notin DOMAIN id_contracts \/ req_id \notin DOMAIN tick_queue

\* tick_price, lines 252-257: the merged tick of the instrument, its volume reset
MergedTick(req_id) ==
    LET local_symbol == id_contracts[req_id].local_symbol
        old == IF local_symbol \in DOMAIN tick THEN tick[local_symbol] ELSE NewTick
    IN  [old EXCEPT !.volume = 0]

\* ClientAdapter.tick_price
tick_price ==
    \E req_id \in TickEventIds, tick_type \in TickTypes, price \in TickPrices :
        /\ n_events < MaxEvents
        /\ n_events' = n_events + 1
        /\ IF TickLookupFails(req_id)
           THEN /\ tick_error' = TRUE
                /\ UNCHANGED <<tick, tick_queue>>
           ELSE LET local_symbol == id_contracts[req_id].local_symbol
                    old == MergedTick(req_id)
                    new == IF tick_type = 1 THEN [old EXCEPT !.bid = price]
                           ELSE IF tick_type = 2 THEN [old EXCEPT !.ask = price]
                           ELSE old
                IN  /\ tick' = Put(tick, local_symbol, new)
                    /\ tick_queue' = IF ShouldEmit(new)
                                     THEN [tick_queue EXCEPT
                                              ![req_id] = Append(@, copy_tick(new))]
                                     ELSE tick_queue
                    /\ UNCHANGED tick_error
        /\ UNCHANGED <<idVars, thrVars, ordVars, id_contracts, bracket_parms,
                       oca_relations, sent, ev, fill_count, callbacks,
                       callback_ids, market_data_ids, mkt_subs, delivered,
                       last_notified,
                    planVars, histVars, futVars, errVars, execVars, ocaVars, restVars>>

\* tick_size's tick_type: 0 the bid size, 3 the ask size, 8 the volume
TickSizeTypes == {0, 3, 8}
TickSizes == {5}

\* ClientAdapter.tick_size: the sizes are merged, nothing is queued
tick_size ==
    \E req_id \in TickEventIds, tick_type \in TickSizeTypes, size \in TickSizes :
        /\ n_events < MaxEvents
        /\ n_events' = n_events + 1
        /\ IF TickLookupFails(req_id)
           THEN /\ tick_error' = TRUE
                /\ UNCHANGED tick
           ELSE LET local_symbol == id_contracts[req_id].local_symbol
                    old == MergedTick(req_id)
                    new == IF tick_type = 0 THEN [old EXCEPT !.bid_size = size]
                           ELSE IF tick_type = 3 THEN [old EXCEPT !.ask_size = size]
                           ELSE IF tick_type = 8 THEN [old EXCEPT !.volume = size]
                           ELSE old
                IN  /\ tick' = Put(tick, local_symbol, new)
                    /\ UNCHANGED tick_error
        /\ UNCHANGED <<idVars, thrVars, ordVars, id_contracts, bracket_parms,
                       oca_relations, sent, ev, fill_count, callbacks,
                       callback_ids, market_data_ids, tick_queue, mkt_subs,
                       delivered, last_notified,
                    planVars, histVars, futVars, errVars, execVars, ocaVars, restVars>>

\* on_tick without the 'if key in self.callbacks' test: self.callbacks[key]
\* raises KeyError once the callbacks are gone.
on_tick_unguarded ==
    \E contract \in Contracts :
        LET key == get_key("tick", contract)
        IN  /\ n_events < MaxEvents
            /\ n_events' = n_events + 1
            /\ IF key \in DOMAIN callbacks
               THEN /\ last_notified' = [key |-> key, functions |-> callbacks[key]]
                    /\ UNCHANGED tick_error
               ELSE /\ tick_error' = TRUE
                    /\ UNCHANGED last_notified
            /\ UNCHANGED <<idVars, thrVars, ordVars, id_contracts, bracket_parms,
                           oca_relations, sent, ev, fill_count, tickVars, delivered,
                    planVars, histVars, futVars, errVars, execVars, ocaVars, restVars>>

\* Client.on_tick: every function registered for the instrument's key is
\* called; with no function registered, none is.
on_tick ==
    \E contract \in Contracts :
        LET key == get_key("tick", contract)
        IN  /\ n_events < MaxEvents
            /\ n_events' = n_events + 1
            /\ last_notified' =
                   [key |-> key,
                    functions |-> IF key \in DOMAIN callbacks THEN callbacks[key]
                                  ELSE <<>>]
            /\ UNCHANGED <<idVars, thrVars, ordVars, id_contracts, bracket_parms,
                           oca_relations, sent, ev, fill_count, tickVars, delivered,
                           tick_error,
                    planVars, histVars, futVars, errVars, execVars, ocaVars, restVars>>

\* The terminal marker of a stream: the None that stands for "no more ticks".
NoneTick == [bid |-> NoId, ask |-> NoId, bid_size |-> NoId, ask_size |-> NoId,
             volume |-> NoId]

\* What the consumer of request req_id's stream has read so far.
Read(d, req_id) == IF req_id \in DOMAIN d THEN d[req_id] ELSE <<>>

\* The number of terminal markers in a sequence of stream items.
Markers(items) == Cardinality({i \in DOMAIN items : items[i] = NoneTick})

\* unsubscribe that leaves the subscription-id mapping in place.
cancel_ticks_keepMapping ==
    \E contract \in Contracts :
        LET key == MarketKey(contract)
        IN  /\ key \in DOMAIN market_data_ids
            /\ Len(tick_queue[market_data_ids[key]]) <= MaxEvents
            /\ mkt_subs' = mkt_subs \ {market_data_ids[key]}
            /\ tick_queue' = [tick_queue EXCEPT
                                 ![market_data_ids[key]] = Append(@, NoneTick)]
            /\ UNCHANGED <<idVars, thrVars, brVars, ordVars, callbacks, callback_ids,
                           market_data_ids, tick, extVars>>

\* The caller's unsubscribe: the request is cancelled at the transport
\* (ClientAdapter.cancel_mkt_data), the terminal marker goes onto the
\* instrument's queue and the subscription-id mapping is removed.
cancel_ticks ==
    \E contract \in Contracts :
        LET key == MarketKey(contract)
        IN  /\ key \in DOMAIN market_data_ids
            /\ mkt_subs' = mkt_subs \ {market_data_ids[key]}
            /\ tick_queue' = [tick_queue EXCEPT
                                 ![market_data_ids[key]] = Append(@, NoneTick)]
            /\ market_data_ids' = Drop(market_data_ids, key)
            /\ UNCHANGED <<idVars, thrVars, brVars, ordVars, callbacks, callback_ids,
                           tick, extVars>>

\* The consumer's read of its stream: the head of the queue is taken; the
\* terminal marker ends the stream, nothing is read after it.
get_next_tick ==
    \E req_id \in DOMAIN tick_queue :
        /\ tick_queue[req_id] # <<>>
        /\ Markers(Read(delivered, req_id)) = 0
        /\ delivered' = Put(delivered, req_id,
                            Append(Read(delivered, req_id), Head(tick_queue[req_id])))
        /\ tick_queue' = [tick_queue EXCEPT ![req_id] = Tail(@)]
        /\ UNCHANGED <<idVars, thrVars, brVars, ordVars, callbacks, callback_ids,
                       market_data_ids, tick, mkt_subs, last_notified, tick_error,
                    planVars, histVars, futVars, errVars, execVars, ocaVars, restVars>>

NextTicks == req_tick_updates \/ cancel_tick_updates \/ tick_price

SpecTicks == InitTicks /\ [][NextTicks]_vars

\* C9: every tick on a subscriber's queue has a bid above 0 and an ask
\* strictly above the bid; a tick_price event that leaves the merged tick with
\* bid <= 0 or ask <= bid has put nothing on the queue.
C9_QueuedTicksTwoSided ==
    \A req_id \in DOMAIN tick_queue :
        \A i \in DOMAIN tick_queue[req_id] :
            /\ tick_queue[req_id][i].bid > 0
            /\ tick_queue[req_id][i].ask > tick_queue[req_id][i].bid

\* A tick was queued and a later price crossed the merged tick (ask <= bid),
\* which was not queued.
C9_Witness ==
    \E req_id \in DOMAIN tick_queue :
        LET t == tick[id_contracts[req_id].local_symbol]
        IN  /\ Len(tick_queue[req_id]) = 1
            /\ t.bid > 0
            /\ t.ask <= t.bid
            /\ t.ask > 0

\* C10: an instrument has at most one market-data request open at the
\* transport: subscribing again while its subscription is active sends no
\* second request and allocates no new id.
C10_OneRequestPerInstrument ==
    \A contract \in Contracts :
        Cardinality({req_id \in mkt_subs : id_contracts[req_id] = contract}) <= 1

\* ------------------------------------------------ tick streams, cancelled
\* The subscriptions with both ways out of them, the callbacks' and the
\* stream's, and the tick events that can still arrive afterwards.
subscribe_stream == next_id < 1 + MaxStreams /\ req_tick_updates
stream_on_tick == n_events < MaxStreamEvents /\ on_tick
stream_tick_price == n_events < MaxStreamEvents /\ tick_price
stream_tick_size == n_events < MaxStreamEvents /\ tick_size

NextStreams ==
    \/ subscribe_stream
    \/ cancel_tick_updates
    \/ stream_on_tick
    \/ cancel_ticks
    \/ get_next_tick
    \/ stream_tick_price
    \/ stream_tick_size

SpecStreams == InitTicks /\ [][NextStreams]_vars

\* Everything the consumer of req_id's stream has read or can still read.
Stream(d, q, req_id) == Read(d, req_id) \o q[req_id]

MappedIds(ids) == {ids[k] : k \in DOMAIN ids}

DAY_MS == 86400000
BAR_SIZE_SECONDS == 1
MAX_BLOCK_SIZE == 1800
HourMs == 60 * 60 * 1000

Dates == 0..MaxDay

\* 'hh:mm' session times: 0:10, 0:40, 9:30, 10:30, 16:00, 22:30, 23:30
SessionTimes ==
    { [hour |-> 0, minute |-> 10], [hour |-> 0, minute |-> 40],
      [hour |-> 9, minute |-> 30], [hour |-> 10, minute |-> 30],
      [hour |-> 16, minute |-> 0], [hour |-> 22, minute |-> 30],
      [hour |-> 23, minute |-> 30] }

TimeZones == {"UTC", "US/Eastern"}

\* The week the dates lie in: one without a clock change, the week the
\* clocks go forward, the week they go back.
Weeks == {"plain", "spring", "fall"}

PlanInputs ==
    [start_date : Dates, end_date : Dates, min_time : SessionTimes,
     max_time : SessionTimes, timezone : TimeZones, week : Weeks]

\* The change of the zone's UTC offset at the clock change of the week.
DstShift(timezone, week) ==
    IF timezone = "US/Eastern" /\ week = "spring" THEN HourMs
    ELSE IF timezone = "US/Eastern" /\ week = "fall" THEN 0 - HourMs
    ELSE 0

\* The instant and the wall-clock time of the clock change: Sunday 02:00.
TransitionMs == 3 * DAY_MS + 2 * HourMs

\* date_support.str_to_ms: a wall-clock time of the zone as an instant.  (No
\* session time lies in the hour the clock change skips or repeats.)
str_to_ms(date, hour, minute, timezone, week) ==
    LET wall == date * DAY_MS + (hour * 60 + minute) * 60 * 1000
    IN  IF wall >= TransitionMs THEN wall - DstShift(timezone, week) ELSE wall

\* date_support.ms_to_datetime: an instant as wall-clock time of the zone.
ms_to_datetime(milliseconds, timezone, week) ==
    IF milliseconds >= TransitionMs
    THEN milliseconds + DstShift(timezone, week)
    ELSE milliseconds

\* datetime.weekday(): Monday is 0, Sunday is 6; day 0 is a Thursday.
weekday(wall) == ((wall \div DAY_MS) + 3) % 7

\* line 44: if dtime.weekday() < 5
IsTradingDay(wall) == weekday(wall) < 5

\* lines 41-47: the days of the range as <<first_ms, last_ms>> pairs
RECURSIVE Days(_, _, _, _, _)
Days(first_ms, last_ms, end_ms, timezone, week) ==
    IF first_ms < end_ms
    THEN (IF IsTradingDay(ms_to_datetime(last_ms, timezone, week))
          THEN << <<first_ms, last_ms>> >> ELSE <<>>)
         \o Days(first_ms + DAY_MS, last_ms + DAY_MS, end_ms, timezone, week)
    ELSE <<>>

\* A block takes all the bars that are left, however many.
BlockBars_uncapped(total_bars) == total_bars

\* line 55: bars = min(total_bars, config.MAX_BLOCK_SIZE)
BlockBars(total_bars) == IF total_bars < MAX_BLOCK_SIZE THEN total_bars ELSE MAX_BLOCK_SIZE

\* lines 54-59: one day cut into blocks
RECURSIVE DayBlocks(_, _)
DayBlocks(last_ms, total_bars) ==
    IF total_bars > 0
    THEN LET bars == BlockBars(total_bars)
             span_ms == bars * BAR_SIZE_SECONDS * 1000
         IN  << [bar_time |-> last_ms + span_ms, bar_count |-> bars] >>
             \o DayBlocks(last_ms + span_ms, total_bars - MAX_BLOCK_SIZE)
    ELSE <<>>

\* lines 50-53: total_bars of a day ((day[1] - day[0]) / 1000 is exact: the
\* span is a whole number of minutes)
TotalBars(day) == ((day[2] - day[1]) \div 1000) \div BAR_SIZE_SECONDS

RECURSIVE AllBlocks(_)
AllBlocks(days) ==
    IF days = <<>> THEN <<>>
    ELSE DayBlocks(Head(days)[1], TotalBars(Head(days))) \o AllBlocks(Tail(days))

\* lines 37-38: the session's span
SpanMs(in) ==
    ((in.max_time.hour * 60 + in.max_time.minute)
       - (in.min_time.hour * 60 + in.min_time.minute)) * 60 * 1000

\* The kept days of a request
KeptDays(in) ==
    LET start_ms == str_to_ms(in.start_date, in.min_time.hour, in.min_time.minute,
                              in.timezone, in.week)
        end_ms == str_to_ms(in.end_date, in.max_time.hour, in.max_time.minute,
                            in.timezone, in.week)
    IN  Days(start_ms, start_ms + SpanMs(in), end_ms, in.timezone, in.week)

create_bar_data(in) == AllBlocks(KeptDays(in))

InitPlan ==
    /\ next_id = 1
    /\ returned = <<>>
    /\ session = 0
    /\ IdleThreads
    /\ NoOrders
    /\ NoHistory
    /\ NoFutures
    /\ NoBrackets
    /\ NoRest
    /\ plan_in \in PlanInputs
    /\ blocks = <<>>
    /\ planned = FALSE

\* historical_data.get_parameters: the plan of the request
get_parameters ==
    /\ ~planned
    /\ blocks' = create_bar_data(plan_in)
    /\ planned' = TRUE
    /\ UNCHANGED <<idVars, thrVars, brVars, ordVars, tickVars, streamVars, histVars, futVars, errVars, execVars, ocaVars, restVars,
                   plan_in>>

NextPlan == get_parameters

SpecPlan == InitPlan /\ [][NextPlan]_vars

RECURSIVE SumRange(_, _, _)
SumRange(bs, lo, hi) ==
    IF lo > hi THEN 0
    ELSE IF lo = hi THEN bs[lo].bar_count
    ELSE SumRange(bs, lo, (lo + hi) \div 2) + SumRange(bs, (lo + hi) \div 2 + 1, hi)

\* The bars of a sequence of windows
SumBars(bs) == SumRange(bs, 1, Len(bs))

\* The windows of a day: those that end after its start and by its end.
WindowsOf(day) ==
    SelectSeq(blocks, LAMBDA b : b.bar_time > day[1] /\ b.bar_time <= day[2])

\* The bars of a session: its length over the bar size (none for a session
\* that ends before it starts).
SessionBars(in) ==
    IF SpanMs(in) > 0 THEN (SpanMs(in) \div 1000) \div BAR_SIZE_SECONDS ELSE 0

\* C13: every window of the plan has more than 0 and at most MAX_BLOCK_SIZE
\* bars, and the windows of each kept day add up to the session's length
\* divided by the bar size.
C13_WindowsBoundedAndComplete ==
    planned =>
        /\ \A i \in DOMAIN blocks :
              blocks[i].bar_count > 0 /\ blocks[i].bar_count <= MAX_BLOCK_SIZE
        /\ \A i \in DOMAIN KeptDays(plan_in) :
              SumBars(WindowsOf(KeptDays(plan_in)[i])) = SessionBars(plan_in)
        /\ SumBars(blocks) = Len(KeptDays(plan_in)) * SessionBars(plan_in)

\* A one-hour session of one weekday was planned: two windows of 1800 bars,
\* 3600 bars in all.
C13_Witness ==
    /\ planned
    /\ SpanMs(plan_in) = HourMs
    /\ Len(blocks) = 2
    /\ blocks[1].bar_count = MAX_BLOCK_SIZE
    /\ SumBars(blocks) = 3600

\* Whether a window lies on weekdays only, from its first bar to its last.
OnWeekdays(b, in) ==
    /\ weekday(ms_to_datetime(b.bar_time - b.bar_count * BAR_SIZE_SECONDS * 1000,
                              in.timezone, in.week)) < 5
    /\ weekday(ms_to_datetime(b.bar_time - 1, in.timezone, in.week)) < 5

\* C14: no window of the plan lies on a Saturday or a Sunday; a range of
\* weekend days only has no windows, and neither has a range whose end is not
\* after its start.
C14_WeekdaysOnly ==
    planned =>
        /\ \A i \in DOMAIN blocks : OnWeekdays(blocks[i], plan_in)
        /\ (plan_in.start_date \in {2, 3} /\ plan_in.end_date \in {2, 3})
              => blocks = <<>>
        /\ plan_in.end_date < plan_in.start_date => blocks = <<>>

\* ------------------------------------------- the historical downloader
\* Client.req_history / on_history / disconnect and HistoricalDownloader: the
\* caller's thread puts a plan's requests on the queue, the downloader's
\* thread takes them off one by one, sleeps and makes the retrieval call, and
\* the transport's events come back through on_history.
WAIT_SECONDS == 18

HistoryCallback == "on_history_cb"

\* The ranges asked for: a half-hour session (one window) and a one-hour
\* session (two windows) of day 0.
HistoryRanges ==
    { [start_date |-> 0, end_date |-> 0, min_time |-> [hour |-> 0, minute |-> 10],
       max_time |-> [hour |-> 0, minute |-> 40], timezone |-> "UTC", week |-> "plain"],
      [start_date |-> 0, end_date |-> 0, min_time |-> [hour |-> 9, minute |-> 30],
       max_time |-> [hour |-> 10, minute |-> 30], timezone |-> "UTC", week |-> "plain"] }

\* historical_downloader.create_request; 'plan' names the req_history call the
\* request belongs to, 'seq' its place in the order of the queue's puts.
create_request(contract, item, plan) ==
    [kind |-> "window", plan |-> plan, seq |-> 0, contract |-> contract,
     delay |-> WAIT_SECONDS, end_date_time |-> item.bar_time,
     duration |-> item.bar_count * BAR_SIZE_SECONDS]

\* request_history, lines 74-78: the requests of a range, in order
Requests(contract, range, plan) ==
    LET bar_data == create_bar_data(range)
    IN  [i \in DOMAIN bar_data |-> create_request(contract, bar_data[i], plan)]

InitHistory ==
    /\ next_id = 1
    /\ returned = <<>>
    /\ session = 0
    /\ IdleThreads
    /\ Quiet

\* Client.req_history, up to request_history's loop: the callback is
\* registered, the downloader and its thread are created on first use, and
\* the plan is computed.
req_history ==
    \E contract \in Contracts, range \in HistoryRanges :
        /\ connected
        /\ to_put = <<>>
        /\ n_plans < MaxPlans
        /\ n_plans' = n_plans + 1
        /\ callbacks' = AddCallback(get_key("history", contract), HistoryCallback)
        /\ downloader' = "set"
        /\ dispatcher' = IF downloader = "none" THEN "get" ELSE dispatcher
        /\ to_put' = Requests(contract, range, n_plans + 1)
        /\ UNCHANGED <<idVars, thrVars, brVars, ordVars, callback_ids, market_data_ids,
                       tick_queue, tick, mkt_subs, streamVars, planVars, futVars, errVars, execVars, ocaVars, restVars, connected,
                       pending_queue, outstanding_count, cur_parms, slept,
                       since_issue, n_put, n_issued, in_flight, queued_at_stop,
                       last_report, history_error>>

\* request_history, lines 78-81: one turn of the loop
request_history_put ==
    /\ to_put # <<>>
    /\ outstanding_count' = outstanding_count + 1
    /\ pending_queue' = Append(pending_queue, [Head(to_put) EXCEPT !.seq = n_put + 1])
    /\ n_put' = n_put + 1
    /\ to_put' = Tail(to_put)
    /\ UNCHANGED <<idVars, thrVars, brVars, ordVars, tickVars, streamVars, planVars, futVars, errVars, execVars, ocaVars, restVars,
                   connected, downloader, dispatcher, cur_parms, slept, since_issue,
                   n_issued, in_flight, n_plans, queued_at_stop, last_report,
                   history_error>>

\* __dispatcher__, line 41: 'while self.client.is_connected' names the method
\* without calling it, and a bound method is true.
LoopCondition == TRUE

\* __dispatcher__, lines 41-46: the next item is taken off the queue
dispatcher_get ==
    /\ dispatcher = "get"
    /\ LoopCondition
    /\ pending_queue # <<>>
    /\ IF Head(pending_queue).kind = "stop"
       THEN /\ pending_queue' = <<>>
            /\ outstanding_count' = 0
            /\ dispatcher' = "stopped"
            /\ UNCHANGED <<cur_parms, slept>>
       ELSE /\ pending_queue' = Tail(pending_queue)
            /\ cur_parms' = Head(pending_queue)
            /\ slept' = 0
            /\ dispatcher' = "sleep"
            /\ UNCHANGED outstanding_count
    /\ UNCHANGED <<idVars, thrVars, brVars, ordVars, tickVars, streamVars, planVars, futVars, errVars, execVars, ocaVars, restVars,
                   connected, downloader, to_put, since_issue, n_put, n_issued,
                   in_flight, n_plans, queued_at_stop, last_report, history_error>>

\* The dispatcher does not sleep at all.
SleepOver_atOnce(seconds, delay) == TRUE

\* line 47: time.sleep(parms['delay']) returns once the delay has passed
SleepOver(seconds, delay) == seconds >= delay

\* __dispatcher__, lines 47-54: after the sleep an id is taken and the
\* retrieval call made
dispatcher_issue ==
    /\ dispatcher = "sleep"
    /\ SleepOver(slept, cur_parms.delay)
    /\ next_id' = next_id + 1
    /\ returned' = Append(returned, next_id)
    /\ id_contracts' = Put(id_contracts, next_id, cur_parms.contract)
    /\ in_flight' = in_flight \cup {cur_parms}
    /\ n_issued' = n_issued + 1
    /\ since_issue' = 0
    /\ cur_parms' = StopItem
    /\ dispatcher' = "get"
    /\ UNCHANGED <<session, thrVars, bracket_parms, oca_relations, sent, ev, n_events,
                   fill_count, ordVars, tickVars, streamVars, planVars, futVars, errVars, execVars, ocaVars, restVars, connected,
                   downloader, pending_queue, outstanding_count, to_put, slept, n_put,
                   n_plans, queued_at_stop, last_report, history_error>>

\* The clock's step: the delay between requests.
TickSeconds == WAIT_SECONDS

Later(seconds) ==
    IF seconds + TickSeconds < WAIT_SECONDS THEN seconds + TickSeconds ELSE WAIT_SECONDS

\* Time passes: the sleeping dispatcher and the time since the last retrieval
\* call move on by one step of the clock.
clock_tick ==
    /\ (dispatcher = "sleep" /\ slept < WAIT_SECONDS) \/ since_issue < WAIT_SECONDS
    /\ slept' = IF dispatcher = "sleep" THEN Later(slept) ELSE slept
    /\ since_issue' = Later(since_issue)
    /\ UNCHANGED <<idVars, thrVars, brVars, ordVars, tickVars, streamVars, planVars, futVars, errVars, execVars, ocaVars, restVars,
                   connected, downloader, dispatcher, pending_queue, outstanding_count,
                   to_put, cur_parms, n_put, n_issued, in_flight, n_plans,
                   queued_at_stop, last_report, history_error>>

\* Client.on_history for an event of a request in flight: a bar (tick) or the
\* end of the block (tick is None).  With Client.downloader None,
\* self.downloader.block_received() and self.downloader.outstanding_count
\* raise AttributeError.
on_history ==
    \E w \in in_flight, block_done \in BOOLEAN :
        LET key == get_key("history", w.contract)
            count == IF block_done THEN outstanding_count - 1 ELSE outstanding_count
            request_done == count = 0
        IN  /\ in_flight' = IF block_done THEN in_flight \ {w} ELSE in_flight
            /\ IF downloader = "none"
               THEN /\ history_error' = TRUE
                    /\ UNCHANGED <<outstanding_count, last_report, callbacks,
                                   callback_ids>>
               ELSE /\ outstanding_count' = count
                    /\ last_report' = [key |-> key, block_done |-> block_done,
                                       request_done |-> request_done]
                    /\ callbacks' = IF request_done /\ key \in DOMAIN callbacks
                                    THEN Drop(callbacks, key) ELSE callbacks
                    /\ callback_ids' = IF request_done /\ key \in DOMAIN callback_ids
                                       THEN Drop(callback_ids, key) ELSE callback_ids
                    /\ UNCHANGED history_error
            /\ UNCHANGED <<idVars, thrVars, brVars, ordVars, market_data_ids,
                           tick_queue, tick, mkt_subs, streamVars, planVars, futVars, errVars, execVars, ocaVars, restVars, connected,
                           downloader, dispatcher, pending_queue, to_put, cur_parms,
                           slept, since_issue, n_put, n_issued, n_plans,
                           queued_at_stop>>

\* Client.disconnect, called on the connected client
disconnect_history == connected /\ disconnect

NextHistory ==
    \/ req_history
    \/ request_history_put
    \/ dispatcher_get
    \/ dispatcher_issue
    \/ clock_tick
    \/ on_history
    \/ disconnect_history

SpecHistory == InitHistory /\ [][NextHistory]_vars

\* C15: retrieval calls are made in the order the requests were put on the
\* queue, and each but the first is made WAIT_SECONDS or more after the one
\* before.
C15_IssuedInOrderAfterDelay ==
    [][ n_issued' # n_issued
          => /\ cur_parms.seq = n_issued + 1
             /\ n_issued > 0 => since_issue >= WAIT_SECONDS
      ]_vars

\* Two retrieval calls have been made and a third request has been slept on
\* for the whole delay.
C15_Witness ==
    /\ n_issued = 2
    /\ dispatcher = "sleep"
    /\ slept = WAIT_SECONDS

\* C16: at most one historical request is in flight at any time.
C16_OneWindowInFlight == Cardinality(in_flight) <= 1

\* The requests made for a callback key that are not complete yet.
WindowsLeft(tp, pq, cp, inf, key) ==
    {i \in DOMAIN tp : get_key("history", tp[i].contract) = key} # {}
    \/ {i \in DOMAIN pq : pq[i].kind = "window"
                          /\ get_key("history", pq[i].contract) = key} # {}
    \/ (cp.kind = "window" /\ get_key("history", cp.contract) = key)
    \/ {w \in inf : get_key("history", w.contract) = key} # {}

\* C17: when a block ends, on_history tells the callbacks that the request is
\* done, and removes them, exactly when that block was the last one
\* outstanding for their key: not while a request for the key is still to be
\* put on the queue, queued, slept on or in flight, and not later than the
\* last block's end.
C17_DoneExactlyAtLastWindow ==
    [][ (in_flight' # in_flight /\ n_issued' = n_issued /\ ~history_error')
          => /\ last_report'.block_done
             /\ last_report'.request_done
                   <=> ~WindowsLeft(to_put', pending_queue', cur_parms', in_flight',
                                    last_report'.key)
             /\ last_report'.request_done
                   <=> last_report'.key \notin DOMAIN callbacks'
      ]_vars

\* C18: no retrieval call is made for a request that was on the queue when
\* stop() was called.
C18_StopDrainsQueue ==
    [][ n_issued' # n_issued => cur_parms.seq \notin queued_at_stop ]_vars

\* C19: the events of a request that was in flight when the client
\* disconnected are handled without an error.
C19_LateBlockHandled == ~history_error

\* ------------------------------------------------ ClientAdapter's futures
MaxRequests == 2     \* req_ids, req_managed_accts and req_contract_details calls
MaxFutEvents == 3    \* inbound events delivered where the futures are followed

\* The ids next_valid_id events carry, the account numbers managed_accounts
\* events carry, and the contracts contract_details events carry (con_id
\* tells two answers for one symbol and currency apart).
IdAnswers == {1, 2}
AccountNumbers == {"DU1", "DU2"}
ContractAnswers ==
    { [symbol |-> c.symbol, currency |-> c.currency, con_id |-> n] :
        c \in Contracts, n \in {1, 2} }

\* '{0}.{1}'.format(contract.symbol, contract.currency)
contract_key(contract) == contract.symbol \o "." \o contract.currency

InitFutures ==
    /\ next_id = 1
    /\ returned = <<>>
    /\ session = 0
    /\ IdleThreads
    /\ Quiet

\* A request is made.
Request ==
    /\ n_requests < MaxRequests
    /\ n_requests' = n_requests + 1

\* ClientAdapter.req_ids
req_ids ==
    /\ Request
    /\ next_valid_id_fut' = Pending
    /\ UNCHANGED <<idVars, thrVars, brVars, ordVars, tickVars, streamVars, planVars,
                   histVars, errVars, execVars, ocaVars, restVars, account_name_fut, contract_futs, last_id_event,
                   contract_handles>>

\* ClientAdapter.req_managed_accts
req_managed_accts ==
    /\ Request
    /\ account_name_fut' = Pending
    /\ UNCHANGED <<idVars, thrVars, brVars, ordVars, tickVars, streamVars, planVars,
                   histVars, errVars, execVars, ocaVars, restVars, next_valid_id_fut, contract_futs, last_id_event,
                   contract_handles>>

\* ClientAdapter.req_contract_details
req_contract_details ==
    \E contract \in Contracts :
        /\ Request
        /\ contract_futs' = Put(contract_futs, contract_key(contract), Pending)
        /\ contract_handles' = Append(contract_handles,
                                      [key |-> contract_key(contract), done |-> FALSE])
        /\ UNCHANGED <<idVars, thrVars, brVars, ordVars, tickVars, streamVars,
                       planVars, histVars, errVars, execVars, ocaVars, restVars, next_valid_id_fut, account_name_fut,
                       last_id_event>>

\* Future.set_result behind the handlers' test: the future takes the value if
\* it is there and not done.
Resolve(future, value) == IF is_future_valid(future) THEN Done(value) ELSE future

\* ClientAdapter.next_valid_id
adapter_next_valid_id ==
    \E req_id \in IdAnswers :
        /\ Deliver
        /\ next_valid_id_fut' = Resolve(next_valid_id_fut, req_id)
        /\ last_id_event' = req_id
        /\ UNCHANGED <<idVars, thrVars, id_contracts, bracket_parms, oca_relations,
                       sent, fill_count, ordVars, tickVars, streamVars, planVars,
                       histVars, errVars, execVars, ocaVars, restVars, account_name_fut, contract_futs, n_requests,
                       contract_handles>>

\* ClientAdapter.managed_accounts
managed_accounts ==
    \E account_number \in AccountNumbers :
        /\ Deliver
        /\ account_name_fut' = Resolve(account_name_fut, account_number)
        /\ UNCHANGED <<idVars, thrVars, id_contracts, bracket_parms, oca_relations,
                       sent, fill_count, ordVars, tickVars, streamVars, planVars,
                       histVars, errVars, execVars, ocaVars, restVars, next_valid_id_fut, contract_futs, n_requests,
                       last_id_event, contract_handles>>

\* The Future that contract_futs[key] refers to: the one the latest
\* req_contract_details call for the key created.
CurrentHandle(key) ==
    CHOOSE i \in DOMAIN contract_handles :
        /\ contract_handles[i].key = key
        /\ \A j \in DOMAIN contract_handles :
               contract_handles[j].key = key => j <= i

\* set_result on the Future with number i (a Future that is done is left alone
\* by the handlers' test).
SetResult(handles, i) == [handles EXCEPT ![i].done = TRUE]

\* ClientAdapter.contract_details, for a contract whose details were asked for
contract_details ==
    \E contract \in ContractAnswers :
        LET key == contract_key(contract)
        IN  /\ key \in DOMAIN contract_futs
            /\ Deliver
            /\ contract_futs' = Put(contract_futs, key,
                                    Resolve(contract_futs[key], contract))
            /\ contract_handles' = SetResult(contract_handles, CurrentHandle(key))
            /\ UNCHANGED <<idVars, thrVars, id_contracts, bracket_parms,
                           oca_relations, sent, fill_count, ordVars, tickVars,
                           streamVars, planVars, histVars, errVars, execVars, ocaVars, restVars, next_valid_id_fut,
                           account_name_fut, n_requests, last_id_event>>

\* An inbound event can still be taken here.
EventsLeft == n_events < MaxFutEvents

future_next_valid_id == EventsLeft /\ adapter_next_valid_id
future_managed_accounts == EventsLeft /\ managed_accounts
future_contract_details == EventsLeft /\ contract_details
future_open_order == EventsLeft /\ open_order
future_open_order_end == EventsLeft /\ open_order_end
future_exec_details_end == EventsLeft /\ exec_details_end
future_order_status == EventsLeft /\ order_status

NextFutures ==
    \/ req_ids
    \/ req_managed_accts
    \/ req_contract_details
    \/ get_orders
    \/ cancel_order
    \/ future_next_valid_id
    \/ future_managed_accounts
    \/ future_contract_details
    \/ future_open_order
    \/ future_open_order_end
    \/ future_exec_details_end
    \/ future_order_status

SpecFutures == InitFutures /\ [][NextFutures]_vars

\* The future is a done one and has not changed.
Kept(before, after) == before.state = "done" => after = before

\* C20: no inbound event changes a future that is done: the futures of the
\* next-valid-id, account-name, contract, executions, open-orders and
\* order-cancel requests keep the result they were first given.
C20_ResolvedKeepsValue ==
    [][ n_events' # n_events
          => /\ Kept(next_valid_id_fut, next_valid_id_fut')
             /\ Kept(account_name_fut, account_name_fut')
             /\ \A key \in DOMAIN contract_futs :
                    /\ key \in DOMAIN contract_futs'
                    /\ Kept(contract_futs[key], contract_futs'[key])
             /\ Kept(executions_fut, executions_fut')
             /\ Kept(orders_fut, orders_fut')
             /\ Kept(order_cancel_fut, order_cancel_fut') ]_vars

\* C20's case: the id future is done, and a next_valid_id event that came
\* after it was resolved carried another id.
C20_Witness ==
    /\ next_valid_id_fut.state = "done"
    /\ last_id_event # NoId
    /\ last_id_event # next_valid_id_fut.result

\* C21: an inbound event that finds the future it is for already done (a
\* second next_valid_id, managed_accounts or exec_details_end) is reported:
\* an error is recorded for it.
C21_SecondResolutionReported ==
    [][ ( \/ next_valid_id_fut.state = "done" /\ adapter_next_valid_id
          \/ account_name_fut.state = "done" /\ managed_accounts
          \/ executions_fut.state = "done" /\ exec_details_end )
        => diagnostics' # diagnostics ]_vars

\* ------------------------------------------------------- the error hook
\* get_key('errors')
ErrorsKey == "errors"

ErrorCallback == "on_error_cb"

\* The request ids and codes error events carry: no request (-1) or an
\* order's id; 135 "can't find order", 2104 a connection-wide notice.
ErrorIds == {NoId, 1, 2}
ErrorCodes == {135, 2104}

\* Client.req_error_messages
req_error_messages ==
    /\ ErrorsKey \notin DOMAIN callbacks
    /\ callbacks' = AddCallback(ErrorsKey, ErrorCallback)
    /\ UNCHANGED <<idVars, thrVars, brVars, ordVars, callback_ids, market_data_ids,
                   tick_queue, tick, mkt_subs, extVars>>

\* Client.on_error: every function registered for 'errors' is called
on_error(req_id, code) ==
    IF ErrorsKey \in DOMAIN callbacks
    THEN diagnostics \o [i \in DOMAIN callbacks[ErrorsKey] |->
                           [function |-> callbacks[ErrorsKey][i], req_id |-> req_id,
                            code |-> code]]
    ELSE diagnostics

\* ClientAdapter.error: the event is handed to Client.on_error, no more
error(req_id, code) ==
    /\ Deliver
    /\ diagnostics' = on_error(req_id, code)
    /\ UNCHANGED <<idVars, thrVars, id_contracts, bracket_parms, oca_relations, sent,
                   fill_count, ordVars, tickVars, streamVars, planVars, histVars,
                   futVars, execVars, ocaVars, restVars>>

adapter_error == \E req_id \in ErrorIds, code \in ErrorCodes : EventsLeft /\ error(req_id, code)

NextErrors ==
    \/ req_error_messages
    \/ cancel_order
    \/ future_open_order
    \/ future_order_status
    \/ adapter_error

SpecErrors == InitFutures /\ [][NextErrors]_vars

\* C22: an error event that carries the id of a pending request (the order a
\* pending cancel was asked for) fails that request's future; any other
\* error event leaves every future as it was.
C22_ErrorFailsItsRequest ==
    [][ \A req_id \in ErrorIds, code \in ErrorCodes :
          error(req_id, code)
            => /\ IF req_id = cancel_req_id /\ is_future_valid(order_cancel_fut)
                  THEN order_cancel_fut'.state = "failed"
                  ELSE order_cancel_fut' = order_cancel_fut
               /\ UNCHANGED <<executions_fut, orders_fut, next_valid_id_fut,
                              account_name_fut, contract_futs>> ]_vars

\* --------------------------------------------- disconnect and the waiters
\* Requests are made and events arrive while the connection is up.
live_req_ids == connected /\ req_ids
live_get_orders == connected /\ get_orders
live_subscribe == connected /\ subscribe_stream
live_next_valid_id == connected /\ future_next_valid_id
live_exec_details_end == connected /\ future_exec_details_end
live_tick_price == connected /\ stream_tick_price

NextDisconnect ==
    \/ live_req_ids
    \/ live_get_orders
    \/ live_subscribe
    \/ live_next_valid_id
    \/ live_exec_details_end
    \/ live_tick_price
    \/ get_next_tick
    \/ disconnect_history

\* Every step that can be taken is taken in the end.
SpecDisconnect == InitFutures /\ [][NextDisconnect]_vars /\ WF_vars(NextDisconnect)

\* A caller is suspended on a future or on an open tick stream with no
\* terminal marker in it.
WaiterSuspended ==
    \/ is_future_valid(next_valid_id_fut)
    \/ is_future_valid(executions_fut)
    \/ is_future_valid(orders_fut)
    \/ \E req_id \in MappedIds(market_data_ids) :
           Markers(Stream(delivered, tick_queue, req_id)) = 0

\* C23: after disconnect every pending future is in the end failed and every
\* open tick stream in the end holds its terminal marker: no waiter stays
\* suspended for ever.
C23_DisconnectReleasesWaiters == [](~connected => <>(~WaiterSuspended))

\* ------------------------------------------ place_order among other requests
\* Orders are placed while tick subscriptions take ids and record contracts
\* of their own.
place_on_order == n_events < MaxStreams /\ on_order

NextPlace == subscribe_stream \/ place_order \/ place_on_order

SpecPlace == InitBrackets /\ [][NextPlace]_vars

\* The step sends one order that belongs to no bracket: the caller's
\* place_order.
PlacedByCaller ==
    /\ Len(sent') = Len(sent) + 1
    /\ sent'[Len(sent')].oca_group = NoGroup

StatusRank(status) ==
    IF status \in {"filled", "cancelled"} THEN 2
    ELSE IF status = "submitted" THEN 1
    ELSE 0

\* C25: an order-status event never takes an order backwards in the
\* progression pending -> submitted -> (filled | cancelled), and an order that
\* is filled or cancelled keeps that status.
C25_StatusProgression ==
    [][ order_status
          => \A id \in DOMAIN oh_orders :
                 /\ StatusRank(oh_orders'[id].status) >= StatusRank(oh_orders[id].status)
                 /\ StatusRank(oh_orders[id].status) = 2
                        => oh_orders'[id].status = oh_orders[id].status ]_vars

\* C26: an id that is a key of OrderHandler.orders stays a key: no placement,
\* open-orders query, open_order or order_status event (a fill and a cancel
\* among them) takes an order out of the map.
C26_OrdersNeverDeleted ==
    [][ \A id \in DOMAIN oh_orders : id \in DOMAIN oh_orders' ]_vars

\* C26's case: an order the caller placed and an order reported by the
\* transport are both in the map after a query, one of them cancelled or
\* filled.
C26_Witness ==
    /\ n_queries > 0
    /\ Cardinality(DOMAIN oh_orders) = 2
    /\ \E id \in DOMAIN oh_orders : oh_orders[id].status \in {"filled", "cancelled"}

\* ------------------------------------------------------ the executions
\* The executions exec_details events carry: two permanent ids, two exec ids
\* and two share counts (a redelivered execution can differ from the first).
ExecIds == {"e1", "e2"}
Executions ==
    { [perm_id |-> p, exec_id |-> e, shares |-> n] : p \in {1, 2}, e \in ExecIds,
                                                      n \in {100, 200} }

\* The list with the execution put under its exec id: a dict assignment, which
\* replaces the entry of an exec id that is there and adds one that is not.
PutExecution(list, execution) ==
    IF \E i \in DOMAIN list : list[i].exec_id = execution.exec_id
    THEN [i \in DOMAIN list |->
            IF list[i].exec_id = execution.exec_id THEN execution ELSE list[i]]
    ELSE Append(list, execution)

\* The executions kept as a list that every delivery is appended to.
add_execution_appends(execution) ==
    Put(oh_executions, execution.perm_id,
        Append(RecordedExecutions(execution.perm_id), execution))

\* OrderHandler.add_execution
add_execution(execution) ==
    Put(oh_executions, execution.perm_id,
        PutExecution(RecordedExecutions(execution.perm_id), execution))

\* ClientAdapter.exec_details
exec_details(execution) ==
    /\ Deliver
    /\ oh_executions' = add_execution(execution)
    /\ UNCHANGED <<idVars, thrVars, id_contracts, bracket_parms, oca_relations, sent,
                   fill_count, ordVars, tickVars, streamVars, planVars, histVars,
                   futVars, errVars, ocaVars, restVars, order_executions>>

adapter_exec_details == \E execution \in Executions : EventsLeft /\ exec_details(execution)

NextExecutions ==
    \/ adapter_exec_details
    \/ future_open_order
    \/ future_order_status

SpecExecutions == InitFutures /\ [][NextExecutions]_vars

\* The exec ids in a list of executions.
ExecIdsOf(list) == {list[i].exec_id : i \in DOMAIN list}

\* C27: an exec_details event leaves, for its permanent id, exactly one entry
\* per exec id delivered so far: a new exec id adds one entry, a redelivered
\* one adds none, and the entries of the other permanent ids stay.
C27_ExecutionsDeduplicated ==
    [][ \A execution \in Executions :
          exec_details(execution)
            => LET old == RecordedExecutions(execution.perm_id)
                   new == oh_executions'[execution.perm_id]
               IN  /\ ExecIdsOf(new) = ExecIdsOf(old) \cup {execution.exec_id}
                   /\ Len(new) = Cardinality(ExecIdsOf(new))
                   /\ execution.exec_id \in ExecIdsOf(old) => Len(new) = Len(old)
                   /\ \A p \in DOMAIN oh_executions \ {execution.perm_id} :
                          oh_executions'[p] = oh_executions[p] ]_vars

\* C27's case: two executions with one exec id were delivered for a permanent
\* id, which has one entry, the later one.
C27_Witness ==
    /\ n_events = 2
    /\ oh_orders = EmptyMap
    /\ open_order_ids = EmptyMap
    /\ \E p \in DOMAIN oh_executions :
           Len(oh_executions[p]) = 1 /\ oh_executions[p][1].shares = 200

\* The executions an order read from the ledger carries.
OrderExecutions(id) ==
    IF id \in DOMAIN order_executions THEN order_executions[id] ELSE <<>>

\* C28: an order in the ledger that the transport has reported carries the
\* executions recorded so far for its permanent id.
C28_ExecutionsAreSnapshot ==
    \A id \in DOMAIN order_executions :
        OrderExecutions(id) = RecordedExecutions(PermIdOf(id))

\* ---------------------------------------------------------------------------
\* The bracket orders of one filled parent (Client.__update_brackets__ and
\* OrderHandler.update_brackets, which compute the same orders)
\* ---------------------------------------------------------------------------

BracketQuantities == {100, 200}
BracketPermIds == {1, 2}
BracketFills == {100, 250}
BracketOffsets == {-5, -3, 0, 3, 5}

\* The parents update_brackets makes orders for: filled, at a nonzero price.
BracketParents ==
    [action : OrderActions, total_quantity : BracketQuantities,
     perm_id : BracketPermIds, avg_fill_price : BracketFills]

\* Each child is put in a group of its own.
BracketOrders_ownGroup(parent, profit_offset, loss_offset) ==
    LET children == BracketChildren(parent.action, parent.avg_fill_price,
                                    profit_offset, loss_offset)
    IN  [i \in DOMAIN children |->
            [order_type |-> children[i].order_type,
             action |-> children[i].action,
             total_quantity |-> parent.total_quantity,
             price |-> children[i].price,
             oca_group |-> ToString(parent.perm_id + i - 1),
             oca_type |-> 2,
             tif |-> "gtc"]]

\* The offsets are applied with their sign.
BracketOrders_signed(parent, profit_offset, loss_offset) ==
    LET children == BracketChildren_signed(parent.action, parent.avg_fill_price,
                                           profit_offset, loss_offset)
    IN  [i \in DOMAIN children |->
            [order_type |-> children[i].order_type,
             action |-> children[i].action,
             total_quantity |-> parent.total_quantity,
             price |-> children[i].price,
             oca_group |-> ToString(parent.perm_id),
             oca_type |-> 2,
             tif |-> "gtc"]]

\* __update_brackets__, lines 126-152: the orders placed for the filled parent,
\* the profit order first: ibo.Order(action, parent.total_quantity, 'lmt' or
\* 'stp', price) with oca_group = str(parent.perm_id), oca_type = 2, tif = 'gtc'.
BracketOrders(parent, profit_offset, loss_offset) ==
    LET children == BracketChildren(parent.action, parent.avg_fill_price,
                                    profit_offset, loss_offset)
    IN  [i \in DOMAIN children |->
            [order_type |-> children[i].order_type,
             action |-> children[i].action,
             total_quantity |-> parent.total_quantity,
             price |-> children[i].price,
             oca_group |-> ToString(parent.perm_id),
             oca_type |-> 2,
             tif |-> "gtc"]]

\* A parent placed with a pair of offsets has been filled.
InitBracketOrders ==
    /\ next_id = 1
    /\ returned = <<>>
    /\ session = 0
    /\ IdleThreads
    /\ NoOrders
    /\ NoPlan
    /\ NoHistory
    /\ NoFutures
    /\ bracket_in \in [parent : BracketParents, profit_offset : BracketOffsets,
                       loss_offset : BracketOffsets]
    /\ bracket_orders = <<>>
    /\ bracket_done = FALSE
    /\ NoRest

\* __update_brackets__ for the filled parent: its child orders are made.
update_brackets_orders ==
    /\ ~bracket_done
    /\ bracket_orders' = BracketOrders(bracket_in.parent, bracket_in.profit_offset,
                                       bracket_in.loss_offset)
    /\ bracket_done' = TRUE
    /\ UNCHANGED <<bracket_in, idVars, thrVars, brVars, ordVars, tickVars,
                   streamVars, planVars, histVars, futVars, errVars, execVars,
                   restVars>>

NextBracketOrders == update_brackets_orders

SpecBracketOrders == InitBracketOrders /\ [][NextBracketOrders]_vars

\* C29: every child made for a filled parent carries the parent's permanent id
\* as its OCA group (so both children carry the same one), OCA type 2, time in
\* force 'gtc', the action opposite to the parent's and the parent's total
\* quantity.
C29_ChildAttributes ==
    bracket_done =>
        \A i \in DOMAIN bracket_orders :
            LET child == bracket_orders[i]
                parent == bracket_in.parent
            IN  /\ child.oca_group = ToString(parent.perm_id)
                /\ \A j \in DOMAIN bracket_orders :
                       bracket_orders[j].oca_group = child.oca_group
                /\ child.oca_type = 2
                /\ child.tif = "gtc"
                /\ child.action # parent.action
                /\ child.action \in OrderActions
                /\ child.total_quantity = parent.total_quantity

\* C29's case: both children were made, for a parent of 200 with permanent id 2.
C29_Witness ==
    /\ bracket_done
    /\ Len(bracket_orders) = 2
    /\ bracket_in.parent.total_quantity = 200
    /\ bracket_in.parent.perm_id = 2

\* The side of the fill price a child's price is on: 1 above, -1 below.
SideOf(child, parent) ==
    IF child.price > parent.avg_fill_price THEN 1
    ELSE IF child.price < parent.avg_fill_price THEN 0 - 1 ELSE 0

\* C30: the orders made for a filled parent are the ones made for the same
\* parent with either offset negated; the profit order is above the fill price
\* for a buy parent and below it for a sell parent, the loss order on the other
\* side.
C30_OffsetSignIrrelevant ==
    bracket_done =>
        LET parent == bracket_in.parent
            up == IF parent.action = "buy" THEN 1 ELSE 0 - 1
        IN  /\ \A sp \in {0 - 1, 1}, sl \in {0 - 1, 1} :
                   BracketOrders(parent, sp * bracket_in.profit_offset,
                                 sl * bracket_in.loss_offset) = bracket_orders
            /\ \A i \in DOMAIN bracket_orders :
                   LET child == bracket_orders[i]
                   IN  /\ child.order_type = "lmt" => SideOf(child, parent) = up
                       /\ child.order_type = "stp" => SideOf(child, parent) = 0 - up

\* C30's case: both children were made from two negative offsets.
C30_Witness ==
    /\ bracket_done
    /\ Len(bracket_orders) = 2
    /\ bracket_in.profit_offset < 0
    /\ bracket_in.loss_offset < 0

\* ---------------------------------------------------------------------------
\* Order-status events for orders the ledger does not hold
\* ---------------------------------------------------------------------------

\* C31: an order_status event delivered while the ledger holds no order (so
\* for an order it does not know) changes no order, places no order and
\* changes neither open_order_ids nor open_order_end_called, which decide when
\* orders_fut is resolved.
C31_UnknownStatusIgnored ==
    [][ (oh_orders = EmptyMap /\ order_status)
          => /\ oh_orders' = oh_orders
             /\ sent' = sent
             /\ open_order_ids' = open_order_ids
             /\ open_order_end_called' = open_order_end_called ]_vars

\* ---------------------------------------------------------------------------
\* Client.connect and Client.disconnect
\* ---------------------------------------------------------------------------

\* Client.__init__: the client is not connected and next_id is -1.
InitConnect ==
    /\ next_id = NoId
    /\ returned = <<>>
    /\ session = 0
    /\ IdleThreads
    /\ NoOrders
    /\ NoPlan
    /\ connected = FALSE
    /\ NoDownloader
    /\ NoFutures
    /\ NoBrackets
    /\ NoRest

\* Client.connect, lines 169-171: the transport is connected and
\* req_auto_open_orders sent; the caller then waits in the loop of line 173.
connect ==
    /\ ~connected
    /\ connect_pc # "waiting"
    /\ connected' = TRUE
    /\ connect_pc' = "waiting"
    /\ UNCHANGED <<idVars, thrVars, brVars, ordVars, tickVars, streamVars, planVars,
                   futVars, errVars, execVars, ocaVars,
                   downloader, dispatcher, pending_queue, outstanding_count, to_put,
                   cur_parms, slept, since_issue, n_put, n_issued, in_flight,
                   n_plans, queued_at_stop, last_report, history_error,
                   history_pending, history_queue, hist_streamed, hist_finished,
                   off_orders, off_reports, n_ticks, check_in, check_out,
                   oc_loaded, oc_block, key_regs, key_calls>>

\* Client.connect, lines 173-174: "while self.next_id < 0: time.sleep(1)";
\* connect returns at the first test that finds next_id not negative.
connect_return ==
    /\ connect_pc = "waiting"
    /\ ~(next_id < 0)
    /\ connect_pc' = "returned"
    /\ UNCHANGED <<idVars, thrVars, brVars, ordVars, tickVars, streamVars, planVars,
                   histVars, futVars, errVars, execVars, ocaVars,
                   history_pending, history_queue, hist_streamed, hist_finished,
                   off_orders, off_reports, n_ticks, check_in, check_out,
                   oc_loaded, oc_block, key_regs, key_calls>>

\* A next-valid-id event of the connected transport.
connected_on_next_id == connected /\ on_next_id

\* The caller allocates an id once connect has returned.
connected_get_req_id == connected /\ connect_pc = "returned" /\ get_req_id

\* The caller disconnects once connect has returned.
connected_disconnect == connected /\ connect_pc = "returned" /\ disconnect

\* The caller places an order once connect has returned.
connected_place_order == connected /\ connect_pc = "returned" /\ place_order

NextConnect ==
    \/ connect
    \/ connect_return
    \/ connected_on_next_id
    \/ connected_get_req_id
    \/ connected_place_order
    \/ connected_disconnect

SpecConnect == InitConnect /\ [][NextConnect]_vars

\* C32: when connect returns the client is connected and next_id is greater
\* than 0; when disconnect returns the client is not connected.
C32_ConnectPostcondition ==
    [][ /\ (connect_pc = "waiting" /\ connect_pc' = "returned")
            => (connected' /\ next_id' > 0)
        /\ (session' # session) => ~connected' ]_vars

\* ---------------------------------------------------------------------------
\* Fills reported with a zero average price
\* ---------------------------------------------------------------------------

\* The step handles an on_order event with status filled for id.
FilledStep(id) ==
    /\ n_events' = n_events + 1
    /\ ev'.type = "on_order"
    /\ ev'.order_id = id
    /\ ev'.status = "filled"

\* C33: handling a filled event with average fill price 0 places no order and
\* leaves the recorded offsets (and the id counter and the child relations) as
\* they are; a filled event with a nonzero price that comes right after it for
\* the same parent places one child for each nonzero offset.
C33_ZeroPriceFillKeepsBracket ==
    [][\A id \in DOMAIN bracket_parms :
         /\ (FilledStep(id) /\ ev'.avg_fill_price = 0)
              => /\ sent' = sent
                 /\ bracket_parms' = bracket_parms
                 /\ oca_relations' = oca_relations
                 /\ next_id' = next_id
         /\ ( /\ ev.type = "on_order" /\ ev.order_id = id
              /\ ev.status = "filled" /\ ev.avg_fill_price = 0
              /\ FilledStep(id) /\ ev'.avg_fill_price # 0 )
              => Len(NewlySent) = Cardinality({k \in 1..2 : bracket_parms[id][k] # 0})
      ]_vars

\* C33's case: the last event handled reported a parent with two nonzero
\* offsets filled at price 0; the offsets are still recorded and only the
\* parent has been sent.
C33_Witness ==
    /\ ev.type = "on_order"
    /\ ev.status = "filled"
    /\ ev.avg_fill_price = 0
    /\ ev.order_id \in DOMAIN bracket_parms
    /\ bracket_parms[ev.order_id][1] # 0
    /\ bracket_parms[ev.order_id][2] # 0
    /\ Len(sent) = 1

\* ---------------------------------------------------------------------------
\* The blocks ClientAdapter.historical_data builds from the bars streamed
\* ---------------------------------------------------------------------------

\* The retrievals the transport is still streaming bars for.
OpenRetrievals ==
    {r \in DOMAIN hist_streamed : \A i \in DOMAIN hist_finished : hist_finished[i] # r}

\* ClientAdapter.req_historical_data: history_pending is cleared and the
\* request sent; the transport starts to stream the bars of req_id.
req_historical_data ==
    LET req_id == Cardinality(DOMAIN hist_streamed) + 1
    IN  /\ req_id <= MaxRetrievals
        /\ history_pending' = <<>>
        /\ hist_streamed' = Put(hist_streamed, req_id, <<>>)
        /\ UNCHANGED <<idVars, thrVars, brVars, ordVars, tickVars, streamVars, planVars,
                       histVars, futVars, errVars, execVars, ocaVars,
                       connect_pc, history_queue, hist_finished,
                       off_orders, off_reports, n_ticks, check_in, check_out,
                   oc_loaded, oc_block, key_regs, key_calls>>

\* ClientAdapter.historical_data for a bar of req_id (no 'finished' in date):
\* the bar, here <<req_id, its number>>, is appended to history_pending.
historical_data_bar ==
    \E req_id \in OpenRetrievals :
        LET bar == <<req_id, Len(hist_streamed[req_id]) + 1>>
        IN  /\ Len(hist_streamed[req_id]) < MaxBars
            /\ hist_streamed' = Put(hist_streamed, req_id,
                                    Append(hist_streamed[req_id], bar))
            /\ history_pending' = Append(history_pending, bar)
            /\ UNCHANGED <<idVars, thrVars, brVars, ordVars, tickVars, streamVars,
                           planVars, histVars, futVars, errVars, execVars, ocaVars,
                           connect_pc, history_queue, hist_finished,
                       off_orders, off_reports, n_ticks, check_in, check_out,
                   oc_loaded, oc_block, key_regs, key_calls>>

\* ClientAdapter.historical_data for the 'finished' marker of req_id:
\* history_pending is put on history_queue as one block and cleared.
historical_data_finished ==
    \E req_id \in OpenRetrievals :
        /\ history_queue' = Append(history_queue, history_pending)
        /\ history_pending' = <<>>
        /\ hist_finished' = Append(hist_finished, req_id)
        /\ UNCHANGED <<idVars, thrVars, brVars, ordVars, tickVars, streamVars,
                       planVars, histVars, futVars, errVars, execVars, ocaVars,
                       connect_pc, hist_streamed,
                       off_orders, off_reports, n_ticks, check_in, check_out,
                   oc_loaded, oc_block, key_regs, key_calls>>

NextBlocks ==
    \/ req_historical_data
    \/ historical_data_bar
    \/ historical_data_finished

SpecBlocks == InitFutures /\ [][NextBlocks]_vars

\* C34: every block put on history_queue holds exactly the bars the transport
\* streamed for the retrieval whose 'finished' marker produced it, in arrival
\* order.
C34_BlockIsItsWindow ==
    \A i \in DOMAIN history_queue :
        history_queue[i] = hist_streamed[hist_finished[i]]

\* ---------------------------------------------------------------------------
\* Contract requests that are outstanding together
\* ---------------------------------------------------------------------------

\* C35: a Future returned by req_contract_details that is not done is the one
\* contract_futs holds for its key, so that the matching contract_details
\* event resolves it: no later call for the same key has put another Future in
\* its place.
C35_HandleNotReplaced ==
    \A i, j \in DOMAIN contract_handles :
        (i < j /\ contract_handles[i].key = contract_handles[j].key)
            => contract_handles[i].done

\* ---------------------------------------------------------------------------
\* OfflineClient: orders filled from the offline ticks
\* ---------------------------------------------------------------------------
\* OfflineClient inherits next_id, id_contracts, bracket_parms, oca_relations
\* and on_order / __update_brackets__ from Client; its place_order and
\* cancel_order keep the working orders in self.orders.

\* Python values whose type matters to "==" and "in": a str and an int.
PyStr(s) == <<"str", s>>
PyInt(n) == <<"int", n>>

\* Python's == on them: equal only when of one type and of one value.
PyEq(a, b) == a[1] = b[1] /\ a[2] = b[2]

OfflineKinds == {"mkt", "lmt", "stp", "trail"}
OfflinePrices == {100}
OfflineOffsets == { <<0, 0>>, <<5, -3>> }
OfflineTicks ==
    { [bid |-> 96, ask |-> 97], [bid |-> 100, ask |-> 101],
      [bid |-> 107, ask |-> 108] }

\* check_order with strict comparisons: a price equal to the order's does not
\* fill it.
check_order_strict(order, a_tick) ==
    LET price == IF order.action = "buy" THEN a_tick.ask ELSE a_tick.bid
        buy == order.action = "buy"
        sell == order.action = "sell"
    IN  [result |->
            IF order.order_type = "mkt" THEN TRUE
            ELSE IF order.order_type = "lmt"
                 THEN (buy /\ price < order.lmt_price)
                      \/ (sell /\ price > order.lmt_price)
            ELSE IF order.order_type = "stp"
                 THEN (buy /\ price > order.aux_price)
                      \/ (sell /\ price < order.aux_price)
            ELSE FALSE,
         price |-> price]

\* check_order: whether the order fills on the tick, and at which price.
check_order(order, a_tick) ==
    LET price == IF order.action = "buy" THEN a_tick.ask ELSE a_tick.bid
        buy == order.action = "buy"
        sell == order.action = "sell"
    IN  [result |->
            IF order.order_type = "mkt" THEN TRUE
            ELSE IF order.order_type = "lmt"
                 THEN (buy /\ price <= order.lmt_price)
                      \/ (sell /\ price >= order.lmt_price)
            ELSE IF order.order_type = "stp"
                 THEN (buy /\ price >= order.aux_price)
                      \/ (sell /\ price <= order.aux_price)
            ELSE FALSE,
         price |-> price]

\* fill_order, lines 364-371: "order.oca_group in oca_relations" compares the
\* str oca_group with the keys of oca_relations, the parents' int order ids.
OcaId(order, relations) ==
    LET found == {k \in DOMAIN relations : PyEq(order.oca_group, PyInt(k))}
    IN  IF ~PyEq(order.oca_group, PyStr("")) /\ found # {}
        THEN LET pair == relations[CHOOSE k \in found : TRUE]
             IN  IF order.order_id = pair[1] THEN pair[2] ELSE pair[1]
        ELSE NoId

\* fill_order: the order filled at price, and the id of the order to cancel.
fill_order(order, price, relations) ==
    [order |-> [order EXCEPT !.status = "filled", !.avg_fill_price = price],
     oca_id |-> OcaId(order, relations)]

\* The client's attributes the offline handlers read and write.
OfflineState ==
    [next_id |-> next_id, id_contracts |-> id_contracts,
     bracket_parms |-> bracket_parms, oca_relations |-> oca_relations,
     orders |-> off_orders, reports |-> off_reports]

\* OfflineClient.place_order for an order that is not in self.orders: an id is
\* allocated, which is also the order's perm_id.
OfflinePlace(st, order, offsets) ==
    LET req_id == st.next_id
    IN  [st EXCEPT !.next_id = req_id + 1,
                   !.id_contracts = Put(st.id_contracts, req_id, TheContract),
                   !.bracket_parms = Put(st.bracket_parms, req_id, offsets),
                   !.orders = Put(st.orders, req_id,
                                  [order EXCEPT !.order_id = req_id])]

\* ibo.Order(action, quantity, order_type, lmt_price or aux_price) as
\* __update_brackets__ makes it for a child.
ChildOrder(child, parent) ==
    [order_id |-> 0, action |-> child.action, order_type |-> child.order_type,
     lmt_price |-> IF child.order_type = "lmt" THEN child.price ELSE 0,
     aux_price |-> IF child.order_type = "stp" THEN child.price ELSE 0,
     oca_group |-> PyStr(ToString(PermIdOf(parent.order_id))),
     status |-> "", avg_fill_price |-> 0]

RECURSIVE PlaceChildren(_, _, _)
PlaceChildren(st, children, parent) ==
    IF children = <<>> THEN st
    ELSE PlaceChildren(OfflinePlace(st, ChildOrder(Head(children), parent), <<0, 0>>),
                       Tail(children), parent)

\* Client.__update_brackets__ with OfflineClient.place_order placing the
\* children.
OfflineBrackets(st, parent) ==
    IF \/ parent.order_id \notin DOMAIN st.bracket_parms
       \/ parent.order_id \notin DOMAIN st.id_contracts
       \/ parent.status # "filled"
       \/ parent.avg_fill_price = 0
    THEN st
    ELSE LET offsets == st.bracket_parms[parent.order_id]
             children == BracketChildren(parent.action, parent.avg_fill_price,
                                         offsets[1], offsets[2])
             taken == [st EXCEPT !.bracket_parms = TakeOffsets(st.bracket_parms,
                                                               parent.order_id)]
             placed == PlaceChildren(taken, children, parent)
             id_of(kind) ==
                 IF \E i \in DOMAIN children : children[i].order_type = kind
                 THEN st.next_id - 1
                      + (CHOOSE i \in DOMAIN children : children[i].order_type = kind)
                 ELSE NoId
         IN  [placed EXCEPT !.oca_relations =
                 Put(placed.oca_relations, parent.order_id,
                     <<id_of("lmt"), id_of("stp")>>)]

\* Client.on_order as the offline client calls it: the brackets are updated
\* and the order is passed on to the callbacks.
OfflineOnOrder(st, order) ==
    LET after == OfflineBrackets(st, order)
    IN  [after EXCEPT !.reports = Append(after.reports, order)]

\* OfflineClient.cancel_order
OfflineCancel(st, req_id) ==
    IF req_id \in DOMAIN st.orders
    THEN OfflineOnOrder([st EXCEPT !.orders = Drop(st.orders, req_id)],
                        [st.orders[req_id] EXCEPT !.status = "cancelled"])
    ELSE st

RECURSIVE CancelAll(_, _)
CancelAll(st, ids) ==
    IF ids = <<>> THEN st ELSE CancelAll(OfflineCancel(st, Head(ids)), Tail(ids))

RECURSIVE UpdateAll(_, _)
UpdateAll(st, orders) ==
    IF orders = <<>> THEN st
    ELSE UpdateAll(OfflineOnOrder(st, Head(orders)), Tail(orders))

\* The keys of self.orders in the order the dictionary yields them: ids are
\* inserted in increasing order.
RECURSIVE SortedIds(_)
SortedIds(ids) ==
    IF ids = {} THEN <<>>
    ELSE LET least == CHOOSE x \in ids : \A y \in ids : x <= y
         IN  <<least>> \o SortedIds(ids \ {least})

\* OfflineClient.__handle_orders__
handle_orders(st, a_tick) ==
    LET ids == SortedIds(DOMAIN st.orders)
        checked == [id \in DOMAIN st.orders |->
                       [st.orders[id] EXCEPT !.status = "submitted"]]
        fills(id) == check_order(st.orders[id], a_tick)
        need_filled == SelectSeq(ids, LAMBDA id : fills(id).result)
        filled == [i \in DOMAIN need_filled |->
                      fill_order(checked[need_filled[i]],
                                 fills(need_filled[i]).price, st.oca_relations)]
        need_cancelled == [i \in DOMAIN
                               SelectSeq(filled, LAMBDA f : f.oca_id >= 0) |->
                               SelectSeq(filled, LAMBDA f : f.oca_id >= 0)[i].oca_id]
        need_updated == [i \in DOMAIN filled |-> filled[i].order]
        popped == [st EXCEPT !.orders =
                      [id \in {x \in DOMAIN checked : ~fills(x).result} |-> checked[id]]]
    IN  UpdateAll(CancelAll(popped, need_cancelled), need_updated)

\* The handlers' result becomes the client's state.
OfflineBecomes(st) ==
    /\ next_id' = st.next_id
    /\ id_contracts' = st.id_contracts
    /\ bracket_parms' = st.bracket_parms
    /\ oca_relations' = st.oca_relations
    /\ off_orders' = st.orders
    /\ off_reports' = st.reports

\* The orders placed by the user: they are in no OCA group.
OfflineParents ==
    {off_orders[id].order_id : id \in {x \in DOMAIN off_orders :
                                          PyEq(off_orders[x].oca_group, PyStr(""))}}
    \cup {off_reports[i].order_id : i \in {x \in DOMAIN off_reports :
                                          PyEq(off_reports[x].oca_group, PyStr(""))}}

\* Client.__init__ and OfflineClient.__init__: next_id is -1 (connect does
\* nothing offline) and there are no orders.
InitOffline == InitIds

\* OfflineClient.place_order, called by the user with a new order.
offline_place_order ==
    \E action \in OrderActions, kind \in OfflineKinds, price \in OfflinePrices,
       offsets \in OfflineOffsets :
        /\ Cardinality(OfflineParents) < MaxParents
        /\ OfflineBecomes(OfflinePlace(OfflineState,
               [order_id |-> 0, action |-> action, order_type |-> kind,
                lmt_price |-> IF kind = "lmt" THEN price ELSE 0,
                aux_price |-> IF kind = "stp" THEN price ELSE 0,
                oca_group |-> PyStr(""), status |-> "", avg_fill_price |-> 0],
               offsets))
        /\ UNCHANGED <<returned, session, thrVars, sent, ev, n_events, fill_count,
                       ordVars, tickVars, streamVars, planVars, histVars, futVars,
                       errVars, execVars, ocaVars, connect_pc, history_pending,
                       history_queue, hist_streamed, hist_finished, n_ticks,
                       check_in, check_out,
                   oc_loaded, oc_block, key_regs, key_calls>>

\* OfflineClient.on_tick for a tick of the offline list: the orders are
\* handled (the tick then goes to the tick callbacks).
offline_on_tick ==
    \E a_tick \in OfflineTicks :
        /\ n_ticks < MaxTicks
        /\ n_ticks' = n_ticks + 1
        /\ OfflineBecomes(handle_orders(OfflineState, a_tick))
        /\ UNCHANGED <<returned, session, thrVars, sent, ev, n_events, fill_count,
                       ordVars, tickVars, streamVars, planVars, histVars, futVars,
                       errVars, execVars, ocaVars, connect_pc, history_pending,
                       history_queue, hist_streamed, hist_finished,
                       check_in, check_out,
                   oc_loaded, oc_block, key_regs, key_calls>>

NextOffline == offline_place_order \/ offline_on_tick

SpecOffline == InitOffline /\ [][NextOffline]_vars

\* on_order was called for the order with the status.
Reported(id, status) ==
    \E i \in DOMAIN off_reports :
        off_reports[i].order_id = id /\ off_reports[i].status = status

\* C36: once one of the two children of a parent has been filled, the other
\* one is no longer a working order, has been reported cancelled and has not
\* been filled.
C36_OneCancelsAll ==
    \A parent \in DOMAIN oca_relations :
        LET profit_id == oca_relations[parent][1]
            loss_id == oca_relations[parent][2]
        IN  (profit_id # NoId /\ loss_id # NoId) =>
                \A pair \in {<<profit_id, loss_id>>, <<loss_id, profit_id>>} :
                    Reported(pair[1], "filled")
                        => /\ pair[2] \notin DOMAIN off_orders
                           /\ Reported(pair[2], "cancelled")
                           /\ ~Reported(pair[2], "filled")

\* ---------------------------------------------------------------------------
\* check_order on its own
\* ---------------------------------------------------------------------------

CheckPrices == {99, 101}
Bids == 98..101
Asks == 99..102

\* The orders and ticks check_order is called with.
CheckInputs ==
    { <<order, a_tick>> :
        order \in [action : OrderActions, order_type : OfflineKinds,
                   lmt_price : CheckPrices, aux_price : CheckPrices],
        a_tick \in {t \in [bid : Bids, ask : Asks] : t.bid < t.ask} }

InitCheck ==
    /\ next_id = NoId
    /\ returned = <<>>
    /\ session = 0
    /\ IdleThreads
    /\ NoOrders
    /\ NoPlan
    /\ NoHistory
    /\ NoFutures
    /\ NoBrackets
    /\ connect_pc = "idle"
    /\ history_pending = <<>>
    /\ history_queue = <<>>
    /\ hist_streamed = EmptyMap
    /\ hist_finished = <<>>
    /\ off_orders = EmptyMap
    /\ off_reports = <<>>
    /\ n_ticks = 0
    /\ check_in \in CheckInputs
    /\ check_out = <<>>
    /\ NoCounterUpdate
    /\ NoRegistrations

\* check_order is called with the order and the tick.
check_order_call ==
    /\ check_out = <<>>
    /\ check_out' = <<check_order(check_in[1], check_in[2])>>
    /\ UNCHANGED <<idVars, thrVars, brVars, ordVars, tickVars, streamVars, planVars,
                   histVars, futVars, errVars, execVars, ocaVars, connect_pc,
                   history_pending, history_queue, hist_streamed, hist_finished,
                   off_orders, off_reports, n_ticks, check_in,
                   oc_loaded, oc_block, key_regs, key_calls>>

NextCheck == check_order_call

SpecCheck == InitCheck /\ [][NextCheck]_vars

\* C37: with price the ask for a buy and the bid for a sell, check_order
\* returns that price, and returns True exactly for a market order, for a
\* limit order with (buy and price <= limit) or (sell and price >= limit), and
\* for a stop order with (buy and price >= stop) or (sell and price <= stop);
\* an order of another kind is never filled.
C37_FillRule ==
    check_out # <<>> =>
        LET order == check_in[1]
            price == IF order.action = "buy" THEN check_in[2].ask ELSE check_in[2].bid
            buy == order.action = "buy"
            kind == order.order_type
            fills == CASE kind = "mkt" -> TRUE
                       [] kind = "lmt" -> IF buy THEN price <= order.lmt_price
                                                 ELSE price >= order.lmt_price
                       [] kind = "stp" -> IF buy THEN price >= order.aux_price
                                                 ELSE price <= order.aux_price
                       [] OTHER -> FALSE
        IN  /\ check_out[1].price = price
            /\ check_out[1].result = fills

\* C37's case: a buy limit order at 101 was checked on a tick with ask 101 and
\* fills at 101.
C37_Witness ==
    /\ check_out # <<>>
    /\ check_in[1].action = "buy"
    /\ check_in[1].order_type = "lmt"
    /\ check_in[1].lmt_price = 101
    /\ check_in[2].ask = 101
    /\ check_out[1].result
    /\ check_out[1].price = 101

\* ---------------------------------------------------------------------------
\* Children of children
\* ---------------------------------------------------------------------------

\* The orders sent as children, and the ids of the orders the caller placed.
SentChildren == {i \in DOMAIN sent : sent[i].oca_group # NoGroup}
SentParents == {sent[i].req_id : i \in DOMAIN sent \ SentChildren}

\* C38: a child is recorded with offsets (0, 0) when it is placed, handling a
\* fill of a child sends no order, every child sent belongs to an order the
\* caller placed, and each such order has at most two children.
C38_NoCascade ==
    [][ /\ \A i \in DOMAIN NewlySent :
               NewlySent[i].oca_group # NoGroup
                   => bracket_parms'[NewlySent[i].req_id] = <<0, 0>>
        /\ \A i \in SentChildren : FilledStep(sent[i].req_id) => sent' = sent
        /\ \A i \in DOMAIN NewlySent :
               NewlySent[i].oca_group # NoGroup
                   => \E id \in SentParents :
                          NewlySent[i].oca_group = ToString(PermIdOf(id))
        /\ \A id \in SentParents :
               Cardinality({i \in DOMAIN sent' :
                               sent'[i].oca_group = ToString(PermIdOf(id))}) <= 2
      ]_vars

\* C38's case: a parent has its two children and one of them was reported
\* filled at a nonzero price.
C38_Witness ==
    /\ Len(sent) = 3
    /\ \E i \in SentChildren :
           /\ sent[i].req_id \in DOMAIN fill_count
           /\ fill_count[sent[i].req_id] >= 1

\* ---------------------------------------------------------------------------
\* HistoricalDownloader.outstanding_count, one read or write per step
\* ---------------------------------------------------------------------------
\* request_history runs on the caller's thread, block_received on the
\* event-delivery thread. "self.outstanding_count += 1" and "-= 1" each read
\* the attribute, compute, and store it, under no lock, and the interpreter may
\* switch threads in between.

\* request_history, line 79: outstanding_count is read.
request_history_load ==
    /\ to_put # <<>>
    /\ oc_loaded.caller = <<>>
    /\ oc_loaded' = [oc_loaded EXCEPT !.caller = <<outstanding_count>>]
    /\ UNCHANGED <<idVars, thrVars, brVars, ordVars, tickVars, streamVars, planVars,
                   histVars, futVars, errVars, execVars, ocaVars, connect_pc,
                   history_pending, history_queue, hist_streamed, hist_finished,
                   off_orders, off_reports, n_ticks, check_in, check_out, oc_block, key_regs, key_calls>>

\* request_history, lines 79-81: the value read plus one is stored and the
\* request is put on the queue.
request_history_store ==
    /\ oc_loaded.caller # <<>>
    /\ outstanding_count' = oc_loaded.caller[1] + 1
    /\ oc_loaded' = [oc_loaded EXCEPT !.caller = <<>>]
    /\ pending_queue' = Append(pending_queue, [Head(to_put) EXCEPT !.seq = n_put + 1])
    /\ n_put' = n_put + 1
    /\ to_put' = Tail(to_put)
    /\ UNCHANGED <<idVars, thrVars, brVars, ordVars, tickVars, streamVars, planVars,
                   futVars, errVars, execVars, ocaVars, connect_pc,
                   history_pending, history_queue, hist_streamed, hist_finished,
                   off_orders, off_reports, n_ticks, check_in, check_out, oc_block, key_regs, key_calls,
                   connected, downloader, dispatcher, cur_parms, slept, since_issue,
                   n_issued, in_flight, n_plans, queued_at_stop, last_report,
                   history_error>>

\* Client.on_history for the end of a block (tick is None), up to
\* block_received's read of outstanding_count.
on_history_load ==
    \E w \in in_flight :
        /\ downloader # "none"
        /\ oc_loaded.events = <<>>
        /\ oc_loaded' = [oc_loaded EXCEPT !.events = <<outstanding_count>>]
        /\ oc_block' = w
        /\ UNCHANGED <<idVars, thrVars, brVars, ordVars, tickVars, streamVars,
                       planVars, histVars, futVars, errVars, execVars, ocaVars,
                       connect_pc, history_pending, history_queue, hist_streamed,
                       hist_finished, off_orders, off_reports, n_ticks, check_in,
                       check_out, key_regs, key_calls>>

\* block_received stores the value read less one; on_history goes on to read
\* the counter, call the callbacks and remove them when it reads 0.
on_history_store ==
    LET key == get_key("history", oc_block.contract)
        count == oc_loaded.events[1] - 1
        request_done == count = 0
    IN  /\ oc_loaded.events # <<>>
        /\ outstanding_count' = count
        /\ oc_loaded' = [oc_loaded EXCEPT !.events = <<>>]
        /\ oc_block' = StopItem
        /\ in_flight' = in_flight \ {oc_block}
        /\ last_report' = [key |-> key, block_done |-> TRUE,
                           request_done |-> request_done]
        /\ callbacks' = IF request_done /\ key \in DOMAIN callbacks
                        THEN Drop(callbacks, key) ELSE callbacks
        /\ callback_ids' = IF request_done /\ key \in DOMAIN callback_ids
                           THEN Drop(callback_ids, key) ELSE callback_ids
        /\ UNCHANGED <<idVars, thrVars, brVars, ordVars, market_data_ids,
                       tick_queue, tick, mkt_subs, streamVars, planVars, futVars,
                       errVars, execVars, ocaVars, connect_pc, history_pending,
                       history_queue, hist_streamed, hist_finished, off_orders,
                       off_reports, n_ticks, check_in, check_out, key_regs, key_calls,
                       connected, downloader, dispatcher, pending_queue, to_put,
                       cur_parms, slept, since_issue, n_put, n_issued, n_plans,
                       queued_at_stop, history_error>>

NextCounter ==
    \/ req_history
    \/ request_history_load
    \/ request_history_store
    \/ dispatcher_get
    \/ dispatcher_issue
    \/ clock_tick
    \/ on_history_load
    \/ on_history_store

SpecCounter == InitHistory /\ [][NextCounter]_vars

\* The requests put on the queue whose block has not been reported finished:
\* those on the queue, the one the dispatcher holds, and those in flight.
QueuedWindows ==
    Cardinality({i \in DOMAIN pending_queue : pending_queue[i].kind = "window"})
    + (IF cur_parms.kind = "window" THEN 1 ELSE 0)
    + Cardinality(in_flight)

\* C39: whenever no thread is in the middle of updating it, outstanding_count
\* is not negative and is the number of requests that were put on the queue
\* and whose block has not been reported finished.
C39_CounterIsOutstanding ==
    (oc_loaded.caller = <<>> /\ oc_loaded.events = <<>>)
        => /\ outstanding_count >= 0
           /\ outstanding_count = QueuedWindows

\* ---------------------------------------------------------------------------
\* The callback registry under get_key's keys
\* ---------------------------------------------------------------------------
\* req_account_updates / cancel_account_updates / on_account and
\* req_tick_updates / cancel_tick_updates / on_tick: the key is computed from
\* the method's name and the account name or the contract, the callback is
\* added under it, removed with everything under it, and called for an event
\* that computes the same key.

Account(chars) == [is_none |-> FALSE, chars |-> chars]

\* What callers subscribe to: two accounts whose names differ in case and a
\* third, and contracts over two symbols and currencies, one the empty string
\* a Contract() starts with.
KeySymbols == {"eur", "eurusd", "gbp"}
KeyCurrencies == {"usd", ""}
KeyAccounts == {<<"D", "U", "1">>, <<"d", "u", "1">>, <<"D", "U", "2">>}
KeyInputs ==
    { [method_name |-> "account", contract |-> NoContract, account_name |-> Account(a)] :
          a \in KeyAccounts }
    \cup
    { [method_name |-> "tick",
       contract |-> [symbol |-> s, currency |-> c, local_symbol |-> ""],
       account_name |-> NoAccount] : s \in KeySymbols, c \in KeyCurrencies }

\* The key the client computes for r.
KeyOf(r) == get_key_account(r.method_name, r.contract, r.account_name)

InitKeys ==
    /\ next_id = 1
    /\ returned = <<>>
    /\ session = 0
    /\ IdleThreads
    /\ Quiet

\* req_account_updates / req_tick_updates: __add_callback__(key, callback).
\* Every caller passes a function of its own, named here by what it
\* subscribes to.
req_updates ==
    \E r \in KeyInputs :
        /\ callbacks' = AddCallback(KeyOf(r), r)
        /\ key_regs' = key_regs \cup {r}
        /\ UNCHANGED <<idVars, thrVars, brVars, ordVars, callback_ids,
                       market_data_ids, tick_queue, tick, mkt_subs, streamVars,
                       planVars, histVars, futVars, errVars, execVars, ocaVars,
                       connect_pc, history_pending, history_queue, hist_streamed,
                       hist_finished, off_orders, off_reports, n_ticks, check_in,
                       check_out, oc_loaded, oc_block, key_calls>>

\* cancel_account_updates / cancel_tick_updates: __del_all_callbacks__(key)
cancel_updates ==
    \E r \in key_regs :
        /\ callbacks' = Drop(callbacks, KeyOf(r))
        /\ key_regs' = key_regs \ {r}
        /\ UNCHANGED <<idVars, thrVars, brVars, ordVars, callback_ids,
                       market_data_ids, tick_queue, tick, mkt_subs, streamVars,
                       planVars, histVars, futVars, errVars, execVars, ocaVars,
                       connect_pc, history_pending, history_queue, hist_streamed,
                       hist_finished, off_orders, off_reports, n_ticks, check_in,
                       check_out, oc_loaded, oc_block, key_calls>>

\* on_account / on_tick: every function under the event's key is called.
on_update ==
    \E r \in KeyInputs :
        /\ key_calls' = [for |-> r,
                         called |-> IF KeyOf(r) \in DOMAIN callbacks
                                    THEN callbacks[KeyOf(r)] ELSE <<>>]
        /\ UNCHANGED <<idVars, thrVars, brVars, ordVars, tickVars, streamVars,
                       planVars, histVars, futVars, errVars, execVars, ocaVars,
                       connect_pc, history_pending, history_queue, hist_streamed,
                       hist_finished, off_orders, off_reports, n_ticks, check_in,
                       check_out, oc_loaded, oc_block, key_regs>>

NextKeys ==
    \/ req_updates
    \/ cancel_updates
    \/ on_update

SpecKeys == InitKeys /\ [][NextKeys]_vars

\* C40: two different subscriptions never share a key in the registry: every
\* subscription that was not cancelled still has its callback under its key,
\* and an event calls only the callbacks registered for what the event is for.
C40_KeysInjective ==
    /\ \A r1 \in key_regs, r2 \in key_regs : r1 # r2 => KeyOf(r1) # KeyOf(r2)
    /\ \A r \in key_regs :
           /\ KeyOf(r) \in DOMAIN callbacks
           /\ \E i \in DOMAIN callbacks[KeyOf(r)] : callbacks[KeyOf(r)][i] = r
    /\ \A i \in DOMAIN key_calls.called : key_calls.called[i] = key_calls.for

====
